---- MODULE Spec2Model ----
(***************************************************************************)
(* A model of the crates_proxy resolution-and-caching pipeline:            *)
(*   src/src/cache.rs            ArtifactCache   (CacheManager)            *)
(*   src/src/version_manager.rs  VersionIndex    (VersionManager)          *)
(*   src/src/crates_api.rs       RegistryClient  (CratesApiClient)         *)
(*   src/src/proxy.rs            ProxyRouter     (ProxyService), Janitor   *)
(* Strings are TLA+ strings; SubSeq(s, i, i) is the i-th character.        *)
(***************************************************************************)
EXTENDS Integers, Sequences, FiniteSets, TLC

VARIABLES
    selIn,      \* input of select_version_for_range: [versions, range]
    selOut,     \* <<result>> once it has been called, <<>> before
    parseIn,    \* input of parse_crates_request: the request path
    parseOut,   \* <<result>> once it has been called, <<>> before
    listIn,     \* what the registry answers to get_available_versions:
                \* [metadata, details]
    listOut,    \* <<result>> once it has been called, <<>> before
    now,        \* SystemTime::now() in seconds since UNIX_EPOCH
    fsDirs,     \* the directories of the file system (absolute paths)
    fsFiles,    \* the regular files: path -> [content, created]
    proc,       \* per process: position in the code and local variables
    started,    \* number of calls / requests started so far
    saved,      \* per cache key: <<bytes>> of the last completed
                \* save_to_cache not yet followed by a write or removal
    versions_tree,  \* durable table "versions": "crate:version" -> bytes
    latest_tree,    \* durable table "latest_versions": crate -> bytes
    memory_cache    \* in-process map: crate -> version

pureVars == <<selIn, selOut, parseIn, parseOut, listIn, listOut>>
fsVars == <<fsDirs, fsFiles>>
dbVars == <<versions_tree, latest_tree, memory_cache>>
vars == <<selIn, selOut, parseIn, parseOut, listIn, listOut, now, fsDirs,
          fsFiles, proc, started, saved, versions_tree, latest_tree,
          memory_cache>>

(***************************************************************************)
(* Bounds                                                                  *)
(***************************************************************************)
MaxVersions == 3   \* longest version list handed to select_version_for_range
MaxTail == 3       \* most path segments after the four-segment prefix
MaxTime == 3       \* the clock stops advancing here
MaxCalls == 3      \* most CacheManager calls started in SpecCache
MaxIndexCalls == 2 \* most VersionManager calls started in SpecIndex

(***************************************************************************)
(* Option values                                                           *)
(***************************************************************************)
None == [some |-> FALSE]
Some(x) == [some |-> TRUE, val |-> x]

(***************************************************************************)
(* String helpers (Rust str methods)                                       *)
(***************************************************************************)
CharAt(s, i) == SubSeq(s, i, i)

starts_with(s, p) == Len(p) <= Len(s) /\ SubSeq(s, 1, Len(p)) = p

ends_with(s, p) == Len(p) <= Len(s) /\ SubSeq(s, Len(s) - Len(p) + 1, Len(s)) = p

\* range.chars().filter(|&c| c == ch).count()
CountChar(s, ch) == Cardinality({i \in 1..Len(s) : CharAt(s, i) = ch})

\* str::split(ch).collect::<Vec<&str>>(): always at least one part
RECURSIVE split(_, _)
split(s, ch) ==
    IF \A i \in 1..Len(s) : CharAt(s, i) # ch
    THEN <<s>>
    ELSE LET i == CHOOSE k \in 1..Len(s) :
                     /\ CharAt(s, k) = ch
                     /\ \A j \in 1..(k - 1) : CharAt(s, j) # ch
         IN <<SubSeq(s, 1, i - 1)>> \o split(SubSeq(s, i + 1, Len(s)), ch)

\* The characters in use, in ascending byte order.
Alphabet == "-./0123456789:_abcdefghijklmnopqrstuvwxyz"
CharCode(c) == CHOOSE i \in 1..Len(Alphabet) : CharAt(Alphabet, i) = c

\* a < b for Rust strings (byte-wise lexicographic order)
str_lt(a, b) ==
    \E i \in 1..Len(b) :
        /\ i <= Len(a) + 1
        /\ SubSeq(a, 1, i - 1) = SubSeq(b, 1, i - 1)
        /\ \/ i = Len(a) + 1
           \/ CharCode(CharAt(a, i)) < CharCode(CharAt(b, i))

(***************************************************************************)
(* RegistryClient.selectVersion                                            *)
(***************************************************************************)
\* A registry version as the client sees it (dl_path and checksum carry no
\* behaviour in the pipeline and are left out).
CrateVersion(num, yanked) == [num |-> num, yanked |-> yanked]

\* the closure handed to find() in select_version_for_range
RangeMatches(v, range) ==
    /\ ~v.yanked
    /\ \/ v.num = range
       \/ starts_with(v.num, range)
       \/ (CountChar(range, ".") = 0 /\ starts_with(v.num, range \o "."))
       \/ (CountChar(range, ".") = 1 /\ starts_with(v.num, range \o "."))

\* mutant: the yanked filter is lost
select_version_for_range_noYank(versions, range) ==
    LET hits == {i \in 1..Len(versions) :
                    starts_with(versions[i].num, range)}
    IN IF hits = {} THEN None
       ELSE Some(versions[CHOOSE i \in hits : \A j \in hits : i <= j])

\* mutant: only the dotted rules 3 and 4 are applied
select_version_for_range_dotOnly(versions, range) ==
    LET hits == {i \in 1..Len(versions) :
                    /\ ~versions[i].yanked
                    /\ \/ versions[i].num = range
                       \/ starts_with(versions[i].num, range \o ".")}
    IN IF hits = {} THEN None
       ELSE Some(versions[CHOOSE i \in hits : \A j \in hits : i <= j])

\* mutant: a version equal to the selector is looked for in the whole list
\* before any other rule is tried
select_version_for_range_exactFirst(versions, range) ==
    LET exact == {i \in 1..Len(versions) :
                     ~versions[i].yanked /\ versions[i].num = range}
        hits == {i \in 1..Len(versions) : RangeMatches(versions[i], range)}
        from == IF exact # {} THEN exact ELSE hits
    IN IF from = {} THEN None
       ELSE Some(versions[CHOOSE i \in from : \A j \in from : i <= j])

\* versions.iter().find(..): the first element the closure accepts
select_version_for_range(versions, range) ==
    LET hits == {i \in 1..Len(versions) : RangeMatches(versions[i], range)}
    IN IF hits = {} THEN None
       ELSE Some(versions[CHOOSE i \in hits : \A j \in hits : i <= j])

(***************************************************************************)
(* ProxyRouter path parsing                                                *)
(***************************************************************************)
ParseErr == [ok |-> FALSE]

\* mutant: the selector is always taken from the sixth part
parse_crates_request_noLatest(path) ==
    LET parts == split(path, "/")
    IN IF \/ Len(parts) < 6
          \/ parts[1] # "" \/ parts[2] # "api"
          \/ parts[3] # "v1" \/ parts[4] # "crates"
       THEN ParseErr
       ELSE [ok |-> TRUE, crate_name |-> parts[5], version |-> parts[6],
             filename |-> IF parts[Len(parts)] = "download"
                          THEN parts[5] \o "-" \o parts[6] \o ".crate"
                          ELSE parts[Len(parts)]]

\* parts is 1-based here: parts[k + 1] is the source's parts[k]
parse_crates_request(path) ==
    LET parts == split(path, "/")
    IN IF \/ Len(parts) < 6
          \/ parts[1] # "" \/ parts[2] # "api"
          \/ parts[3] # "v1" \/ parts[4] # "crates"
       THEN ParseErr
       ELSE LET crate_name == parts[5]
                version == IF Len(parts) > 5 /\ parts[6] # "download"
                           THEN parts[6] ELSE "latest"
                filename == IF parts[Len(parts)] = "download"
                            THEN crate_name \o "-" \o version \o ".crate"
                            ELSE parts[Len(parts)]
            IN [ok |-> TRUE, crate_name |-> crate_name,
                version |-> version, filename |-> filename]

(***************************************************************************)
(* Results                                                                 *)
(***************************************************************************)
Ok(v) == [ok |-> TRUE, val |-> v]
Err(e) == [ok |-> FALSE, err |-> e]
NoResult == Err("none")

(***************************************************************************)
(* Paths (std::path) and the file system (std::fs)                         *)
(***************************************************************************)
\* The working directory of the process; storage_path is "./cache".
Cwd == <<"srv">>
StoragePathStr == "./cache"

\* The components of a path string: "" and "." parts are dropped.
PathComponents(s) == SelectSeq(split(s, "/"), LAMBDA c : c # "" /\ c # ".")

\* A path string that can only name a directory: empty, ending in a slash,
\* or ending in "." or "..".
NamesDirOnly(s) ==
    \/ s = "" \/ ends_with(s, "/")
    \/ LET parts == split(s, "/")
       IN parts[Len(parts)] \in {".", ".."}

\* PathBuf::from
path_from(s) ==
    [abs |-> starts_with(s, "/"), comps |-> PathComponents(s),
     dirOnly |-> NamesDirOnly(s)]

\* Path::join: an absolute argument replaces the path
path_join(p, s) ==
    IF starts_with(s, "/") THEN path_from(s)
    ELSE [abs |-> p.abs, comps |-> p.comps \o PathComponents(s),
          dirOnly |-> NamesDirOnly(s)]

\* Path::parent: the path without its last component
path_parent(p) ==
    IF p.comps = <<>> THEN None
    ELSE Some([abs |-> p.abs,
               comps |-> SubSeq(p.comps, 1, Len(p.comps) - 1),
               dirOnly |-> TRUE])

\* Path resolution by the operating system (no symbolic links).
RECURSIVE Walk(_, _)
Walk(base, comps) ==
    IF comps = <<>> THEN base
    ELSE LET c == Head(comps)
             next == IF c # ".." THEN Append(base, c)
                     ELSE IF base = <<>> THEN <<>>
                     ELSE SubSeq(base, 1, Len(base) - 1)
         IN Walk(next, Tail(comps))

Resolve(p) == Walk(IF p.abs THEN <<>> ELSE Cwd, p.comps)

PathPrefix(p, i) == [p EXCEPT !.comps = SubSeq(p.comps, 1, i)]

\* every directory the path walks through exists
Traversable(p, dirs) ==
    \A i \in 0..(Len(p.comps) - 1) : Resolve(PathPrefix(p, i)) \in dirs

StorageRoot == Resolve(path_from(StoragePathStr))

IsUnder(path, dir) ==
    Len(path) > Len(dir) /\ SubSeq(path, 1, Len(dir)) = dir

\* fs::create_dir_all: creates the missing directories from the top down and
\* fails at the first component that is a regular file.
create_dir_all(p, dirs, files) ==
    LET n == Len(p.comps)
        blocked == {i \in 1..n : Resolve(PathPrefix(p, i)) \in DOMAIN files}
        stop == IF blocked = {} THEN n + 1
                ELSE CHOOSE i \in blocked : \A j \in blocked : i <= j
    IN [ok |-> blocked = {},
        dirs |-> dirs \cup {Resolve(PathPrefix(p, i)) : i \in 1..(stop - 1)}]

\* Path::exists
path_exists(p, dirs, files) ==
    /\ Traversable(p, dirs)
    /\ \/ Resolve(p) \in dirs
       \/ (Resolve(p) \in DOMAIN files /\ ~p.dirOnly)

\* fs::read
fs_read(p, dirs, files) ==
    IF Traversable(p, dirs) /\ ~p.dirOnly /\ Resolve(p) \in DOMAIN files
    THEN Ok(files[Resolve(p)].content)
    ELSE Err("io")

\* fs::write, first half: open(O_CREAT | O_TRUNC).  A new file is born now;
\* an existing file keeps its creation time and loses its content.
CanOpenForWrite(p, dirs, files) ==
    /\ Traversable(p, dirs)
    /\ ~p.dirOnly
    /\ p.comps # <<>>
    /\ Resolve(p) \notin dirs

fs_write_open(p, files, t) ==
    LET r == Resolve(p)
        created == IF r \in DOMAIN files THEN files[r].created ELSE t
    IN [q \in DOMAIN files \cup {r} |->
            IF q = r THEN [content |-> <<>>, created |-> created]
            ELSE files[q]]

\* mutant: a single write() that leaves the last byte out
fs_write_data_short(p, files, data) ==
    LET r == Resolve(p)
    IN IF r \in DOMAIN files
       THEN [files EXCEPT ![r].content = SubSeq(data, 1, Len(data) - 1)]
       ELSE files

\* fs::write, second half: write_all.  The bytes land in the file if it is
\* still linked under the path.
fs_write_data(p, files, data) ==
    LET r == Resolve(p)
    IN IF r \in DOMAIN files
       THEN [files EXCEPT ![r].content = data]
       ELSE files

RemoveFile(files, r) == [q \in DOMAIN files \ {r} |-> files[q]]

(***************************************************************************)
(* ArtifactCache (CacheManager)                                            *)
(***************************************************************************)
DefaultTtl == 1    \* config.cache.default_ttl, in clock units

CacheKey(n, v, f) == [crate_name |-> n, version |-> v, filename |-> f]

\* the path computed by get_cache_path
cache_path(k) ==
    path_join(path_join(path_join(path_from(StoragePathStr), k.crate_name),
                        k.version), k.filename)

\* the side effect of get_cache_path: create_dir_all(parent), error logged
get_cache_path_dirs(k, dirs, files) ==
    LET parent == path_parent(cache_path(k))
    IN IF parent.some THEN create_dir_all(parent.val, dirs, files).dirs
       ELSE dirs

\* is_cached with the TTL test: a file that counts as expired is a miss
is_cached_ttl(k, dirs, files) ==
    LET r == Resolve(cache_path(k))
    IN /\ path_exists(cache_path(k), get_cache_path_dirs(k, dirs, files),
                      files)
       /\ r \in DOMAIN files => ~(files[r].created > DefaultTtl)

\* is_cached: existence only, the TTL is not consulted
is_cached(k, dirs, files) ==
    path_exists(cache_path(k), get_cache_path_dirs(k, dirs, files), files)

\* is_expired: the creation time in seconds since the epoch is compared
\* with the TTL; unreadable metadata counts as expired
is_expired(r, files) ==
    IF r \in DOMAIN files THEN files[r].created > DefaultTtl ELSE TRUE

\* the entries of read_dir(dir)
DirEntries(dir, dirs, files) ==
    {q \in dirs \cup DOMAIN files :
        Len(q) = Len(dir) + 1 /\ SubSeq(q, 1, Len(dir)) = dir}

\* clear_expired_cache_recursive, run to completion: st = [dirs, files]
RECURSIVE clear_expired_cache_recursive(_, _)
RECURSIVE ClearEntries(_, _)
ClearEntries(entries, st) ==
    IF entries = {} THEN st
    ELSE LET e == CHOOSE x \in entries : TRUE
             st1 == IF e \in st.dirs
                    THEN LET in == clear_expired_cache_recursive(e, st)
                         IN IF DirEntries(e, in.dirs, in.files) = {}
                            THEN [in EXCEPT !.dirs = in.dirs \ {e}]
                            ELSE in
                    ELSE IF e \in DOMAIN st.files /\ is_expired(e, st.files)
                    THEN [st EXCEPT !.files = RemoveFile(st.files, e)]
                    ELSE st
         IN ClearEntries(entries \ {e}, st1)

clear_expired_cache_recursive(dir, st) ==
    IF dir \notin st.dirs THEN st
    ELSE ClearEntries(DirEntries(dir, st.dirs, st.files), st)

\* CacheStats::default()
DefaultStats ==
    [total_files |-> 0, valid_files |-> 0, expired_files |-> 0,
     total_size |-> 0]

\* mutant: a file that counts as expired is left out of total_files
StatsOfFile_validOnly(stats, r, files) ==
    LET sized == [stats EXCEPT !.total_size = @ + Len(files[r].content)]
    IN IF is_expired(r, files)
       THEN [sized EXCEPT !.expired_files = @ + 1]
       ELSE [sized EXCEPT !.total_files = @ + 1, !.valid_files = @ + 1]

\* cache.rs 142-153: the else branch of the loop, for the file at r
StatsOfFile(stats, r, files) ==
    LET counted == [stats EXCEPT !.total_files = @ + 1,
                                 !.total_size = @ + Len(files[r].content)]
    IN IF is_expired(r, files)
       THEN [counted EXCEPT !.expired_files = @ + 1]
       ELSE [counted EXCEPT !.valid_files = @ + 1]

\* calculate_stats_recursive (cache.rs 130-157)
RECURSIVE calculate_stats_recursive(_, _, _, _)
RECURSIVE StatsEntries(_, _, _, _)
StatsEntries(entries, dirs, files, stats) ==
    IF entries = {} THEN stats
    ELSE LET e == CHOOSE x \in entries : TRUE
             s1 == IF e \in dirs
                   THEN calculate_stats_recursive(e, dirs, files, stats)
                   ELSE StatsOfFile(stats, e, files)
         IN StatsEntries(entries \ {e}, dirs, files, s1)

calculate_stats_recursive(dir, dirs, files, stats) ==
    IF dir \notin dirs THEN stats
    ELSE StatsEntries(DirEntries(dir, dirs, files), dirs, files, stats)

\* the cache keys whose file is the resolved path r
KeysAt(r, keys) == {k \in keys : Resolve(cache_path(k)) = r}

(***************************************************************************)
(* Processes                                                               *)
(***************************************************************************)
Procs == {"t1", "t2"}

NoKey == CacheKey("", "", "")

Request(method, path) == [method |-> method, path |-> path]
NoRequest == Request("", "")

\* What hyper gets back from handle_request: Ok(Response) or Err(ProxyError).
\* Headers the handler does not set are None.
Response(status, body, content_type, content_length) ==
    [kind |-> "response", status |-> status, body |-> body,
     content_type |-> content_type, content_length |-> content_length]
HandlerError(e) == [kind |-> "error", error |-> e]
NoOutcome == [kind |-> "none"]

IdleProc ==
    [pc |-> "idle",         \* position in the code
     call |-> "",           \* the function called last
     ret |-> "idle",        \* where the running CacheManager call returns to
     key |-> NoKey,         \* the cache key of the running call
     content |-> <<>>,      \* the bytes being written
     fd |-> FALSE,          \* the file opened for writing is still linked
     crate |-> "",          \* crate_name of the running VersionManager call
     ver |-> "",            \* its version argument
     info |-> None,         \* its VersionInfo argument / yanked flag
     time |-> 0,            \* current_time as read by the call
     rec |-> None,          \* the record the call has read and decoded
     cursor |-> None,       \* the key the running scan has reached
     acc |-> <<>>,          \* the Vec the call is building
     result |-> NoResult,   \* what the last call returned
     req |-> NoRequest,     \* the HTTP request the task is handling
     selector |-> "",       \* version as parsed from the request path
     filename |-> "",       \* filename as parsed from the request path
     versions |-> <<>>,     \* the Vec get_available_versions returned
     idx |-> 0,             \* elements of versions consumed by the for loop
     out |-> NoOutcome,     \* how handle_request ended
     nlist |-> 0,           \* get_available_versions calls of this request
     ndl |-> 0,             \* download_crate_version calls of this request
     deadline |-> 0]        \* janitor: when interval.tick() completes next

Return(p, val) == [proc EXCEPT ![p].pc = proc[p].ret, ![p].result = val]

\* saved, once the file at r is opened, written or removed
Forget(r) ==
    [k \in DOMAIN saved |->
        IF Resolve(cache_path(k)) = r THEN <<>> ELSE saved[k]]

(***************************************************************************)
(* CacheManager::is_cached (cache.rs 54-57)                                *)
(***************************************************************************)
IsCachedStep(p) ==
    /\ proc[p].pc = "is_cached"
    /\ fsDirs' = get_cache_path_dirs(proc[p].key, fsDirs, fsFiles)
    /\ proc' = Return(p, Ok(is_cached(proc[p].key, fsDirs, fsFiles)))
    /\ UNCHANGED <<pureVars, dbVars, now, fsFiles, started, saved>>

(***************************************************************************)
(* CacheManager::get_cached_content (cache.rs 71-79)                       *)
(***************************************************************************)
\* lines 72-76: get_cache_path, then the is_cached gate
GetCachedContentCheck(p) ==
    /\ proc[p].pc = "get_cached_content"
    /\ fsDirs' = get_cache_path_dirs(proc[p].key, fsDirs, fsFiles)
    /\ proc' = IF is_cached(proc[p].key, fsDirs, fsFiles)
               THEN [proc EXCEPT ![p].pc = "gcc_read"]
               ELSE Return(p, Err("not_cached"))
    /\ UNCHANGED <<pureVars, dbVars, now, fsFiles, started, saved>>

\* line 78: fs::read(path)?
GetCachedContentRead(p) ==
    /\ proc[p].pc = "gcc_read"
    /\ proc' = Return(p, fs_read(cache_path(proc[p].key), fsDirs, fsFiles))
    /\ UNCHANGED <<pureVars, dbVars, now, fsVars, started, saved>>

(***************************************************************************)
(* CacheManager::save_to_cache (cache.rs 81-91)                            *)
(***************************************************************************)
\* lines 82-87: get_cache_path, create_dir_all(parent)?
SaveToCacheDirs(p) ==
    /\ proc[p].pc = "save_to_cache"
    /\ LET parent == path_parent(cache_path(proc[p].key))
           made == IF parent.some
                   THEN create_dir_all(parent.val, fsDirs, fsFiles)
                   ELSE [ok |-> TRUE, dirs |-> fsDirs]
       IN /\ fsDirs' = made.dirs
          /\ proc' = IF made.ok THEN [proc EXCEPT ![p].pc = "stc_open"]
                     ELSE Return(p, Err("io"))
    /\ UNCHANGED <<pureVars, dbVars, now, fsFiles, started, saved>>

\* line 89, fs::write: the file is created or truncated
SaveToCacheOpen(p) ==
    /\ proc[p].pc = "stc_open"
    /\ LET path == cache_path(proc[p].key)
       IN IF CanOpenForWrite(path, fsDirs, fsFiles)
          THEN /\ fsFiles' = fs_write_open(path, fsFiles, now)
               /\ proc' = [proc EXCEPT ![p].pc = "stc_data", ![p].fd = TRUE]
               /\ saved' = Forget(Resolve(path))
          ELSE /\ proc' = Return(p, Err("io"))
               /\ UNCHANGED <<fsFiles, saved>>
    /\ UNCHANGED <<pureVars, dbVars, now, fsDirs, started>>

\* line 89, fs::write: the bytes are written, Ok(()) is returned
SaveToCacheData(p) ==
    /\ proc[p].pc = "stc_data"
    /\ LET r == Resolve(cache_path(proc[p].key))
       IN IF proc[p].fd
          THEN /\ fsFiles' = fs_write_data(cache_path(proc[p].key), fsFiles,
                                           proc[p].content)
               /\ saved' = [Forget(r) EXCEPT
                               ![proc[p].key] = <<proc[p].content>>]
          ELSE UNCHANGED <<fsFiles, saved>>
    /\ proc' = [Return(p, Ok(<<>>)) EXCEPT ![p].fd = FALSE]
    /\ UNCHANGED <<pureVars, dbVars, now, fsDirs, started>>

(***************************************************************************)
(* CacheManager::clear_expired_cache (cache.rs 93-122), run by the         *)
(* operator's "clean" command (main.rs 186-194) in a process of its own    *)
(***************************************************************************)
ClearExpiredCache ==
    LET st == clear_expired_cache_recursive(
                  StorageRoot, [dirs |-> fsDirs, files |-> fsFiles])
        removed == DOMAIN fsFiles \ DOMAIN st.files
    IN /\ removed # {} \/ st.dirs # fsDirs
       /\ fsDirs' = st.dirs
       /\ fsFiles' = st.files
       /\ saved' = [k \in DOMAIN saved |->
                       IF Resolve(cache_path(k)) \in removed
                       THEN <<>> ELSE saved[k]]
       /\ proc' = [p \in DOMAIN proc |->
                      IF Resolve(cache_path(proc[p].key)) \in removed
                      THEN [proc[p] EXCEPT !.fd = FALSE] ELSE proc[p]]
       /\ UNCHANGED <<pureVars, dbVars, now, started>>

(***************************************************************************)
(* VersionIndex (VersionManager): the durable tables                       *)
(***************************************************************************)
TreeGet(tree, key) == IF key \in DOMAIN tree THEN Some(tree[key]) ELSE None

TreeInsert(tree, key, data) ==
    [k \in DOMAIN tree \cup {key} |-> IF k = key THEN data ELSE tree[k]]

TreeRemove(tree, key) == [k \in DOMAIN tree \ {key} |-> tree[k]]

\* The next item of tree.scan_prefix(prefix) / tree.iter() after the cursor:
\* the smallest key above it that carries the prefix.
NextKey(tree, cursor, prefix) ==
    LET ahead == {k \in DOMAIN tree :
                     /\ starts_with(k, prefix)
                     /\ cursor.some => str_lt(cursor.val, k)}
    IN IF ahead = {} THEN None
       ELSE Some(CHOOSE k \in ahead : \A j \in ahead \ {k} : str_lt(k, j))

\* serde_json: a value is stored as the JSON object of its fields; decoding
\* needs every field of the target struct and drops the others.
VersionInfoFields == {"version", "yanked", "created_at", "expires_at"}
LatestVersionMappingFields ==
    {"crate_name", "latest_version", "updated_at", "expires_at"}

to_vec(value) == value

from_slice(data, fields) ==
    IF fields \subseteq DOMAIN data
    THEN Ok([f \in fields |-> data[f]])
    ELSE Err("serde")

\* bytes that decode to neither struct
Malformed == [garbage |-> TRUE]

\* format!("{}:{}", crate_name, version)
VersionKey(crate_name, version) == crate_name \o ":" \o version

\* mutant: the boundary second counts as expired
expired_ge(current_time, expires_at) == current_time >= expires_at

\* mutant: expiry is noticed one second late
expired_late(current_time, expires_at) == current_time > expires_at + 1

\* the expiry test: current_time > x.expires_at
expired(current_time, expires_at) == current_time > expires_at

Goto(p, label) == [proc EXCEPT ![p].pc = label]

(***************************************************************************)
(* VersionManager::get_latest_version (version_manager.rs 105-139)         *)
(***************************************************************************)
\* lines 107-113: the in-process map, under the read lock
GetLatestMemory(p) ==
    /\ proc[p].pc = "get_latest_version"
    /\ proc' = IF proc[p].crate \in DOMAIN memory_cache
               THEN Return(p, Ok(Some(memory_cache[proc[p].crate])))
               ELSE Goto(p, "vm_gl_db")
    /\ UNCHANGED <<pureVars, dbVars, now, fsVars, started, saved>>

\* the lookup when a pointer is dropped in the second it expires at
GetLatestDb_early(p) ==
    /\ proc[p].pc = "vm_gl_db"
    /\ LET data == TreeGet(latest_tree, proc[p].crate)
           mapping == from_slice(data.val, LatestVersionMappingFields)
       IN proc' =
            IF ~data.some THEN Return(p, Ok(None))
            ELSE IF ~mapping.ok THEN Return(p, mapping)
            ELSE [proc EXCEPT
                    ![p].rec = Some(mapping.val),
                    ![p].time = now,
                    ![p].pc = IF now >= mapping.val.expires_at
                              THEN "vm_gl_rm" ELSE "vm_gl_mem"]
    /\ UNCHANGED <<pureVars, dbVars, now, fsVars, started, saved>>

\* lines 116-126, 136-138: the durable entry is read, decoded and its expiry
\* tested against the clock
GetLatestDb(p) ==
    /\ proc[p].pc = "vm_gl_db"
    /\ LET data == TreeGet(latest_tree, proc[p].crate)
           mapping == from_slice(data.val, LatestVersionMappingFields)
       IN proc' =
            IF ~data.some THEN Return(p, Ok(None))
            ELSE IF ~mapping.ok THEN Return(p, mapping)
            ELSE [proc EXCEPT
                    ![p].rec = Some(mapping.val),
                    ![p].time = now,
                    ![p].pc = IF expired(now, mapping.val.expires_at)
                              THEN "vm_gl_rm" ELSE "vm_gl_mem"]
    /\ UNCHANGED <<pureVars, dbVars, now, fsVars, started, saved>>

\* lines 124-125: the expired entry is removed
GetLatestRemove(p) ==
    /\ proc[p].pc = "vm_gl_rm"
    /\ latest_tree' = TreeRemove(latest_tree, proc[p].crate)
    /\ proc' = Return(p, Ok(None))
    /\ UNCHANGED <<pureVars, versions_tree, memory_cache, now, fsVars,
                   started, saved>>

\* lines 129-135: the map is filled under the write lock
GetLatestFill(p) ==
    /\ proc[p].pc = "vm_gl_mem"
    /\ memory_cache' = TreeInsert(memory_cache, proc[p].crate,
                                  proc[p].rec.val.latest_version)
    /\ proc' = Return(p, Ok(Some(proc[p].rec.val.latest_version)))
    /\ UNCHANGED <<pureVars, versions_tree, latest_tree, now, fsVars,
                   started, saved>>

(***************************************************************************)
(* VersionManager::set_latest_version (version_manager.rs 142-164)         *)
(***************************************************************************)
\* lines 143-154: the mapping is built from the clock and inserted
SetLatestDb(p) ==
    /\ proc[p].pc = "set_latest_version"
    /\ LET mapping == [crate_name |-> proc[p].crate,
                       latest_version |-> proc[p].ver,
                       updated_at |-> now,
                       expires_at |-> now + DefaultTtl]
       IN latest_tree' = TreeInsert(latest_tree, proc[p].crate,
                                    to_vec(mapping))
    /\ proc' = [proc EXCEPT ![p].pc = "vm_sl_mem", ![p].time = now]
    /\ UNCHANGED <<pureVars, versions_tree, memory_cache, now, fsVars,
                   started, saved>>

\* lines 157-163: the map is updated under the write lock
SetLatestMemory(p) ==
    /\ proc[p].pc = "vm_sl_mem"
    /\ memory_cache' = TreeInsert(memory_cache, proc[p].crate, proc[p].ver)
    /\ proc' = Return(p, Ok(<<>>))
    /\ UNCHANGED <<pureVars, versions_tree, latest_tree, now, fsVars,
                   started, saved>>

(***************************************************************************)
(* VersionManager::get_version_info (version_manager.rs 167-184)           *)
(***************************************************************************)
\* lines 168-174, 180-183
GetVersionInfoDb(p) ==
    /\ proc[p].pc = "get_version_info"
    /\ LET data == TreeGet(versions_tree,
                           VersionKey(proc[p].crate, proc[p].ver))
           version_info == from_slice(data.val, VersionInfoFields)
       IN proc' =
            IF ~data.some THEN Return(p, Ok(None))
            ELSE IF ~version_info.ok THEN Return(p, version_info)
            ELSE IF expired(now, version_info.val.expires_at)
            THEN [proc EXCEPT ![p].rec = Some(version_info.val),
                              ![p].time = now, ![p].pc = "vm_gv_rm"]
            ELSE [Return(p, Ok(Some(version_info.val))) EXCEPT
                              ![p].rec = Some(version_info.val),
                              ![p].time = now]
    /\ UNCHANGED <<pureVars, dbVars, now, fsVars, started, saved>>

\* lines 176-177
GetVersionInfoRemove(p) ==
    /\ proc[p].pc = "vm_gv_rm"
    /\ versions_tree' = TreeRemove(versions_tree,
                                   VersionKey(proc[p].crate, proc[p].ver))
    /\ proc' = Return(p, Ok(None))
    /\ UNCHANGED <<pureVars, latest_tree, memory_cache, now, fsVars,
                   started, saved>>

(***************************************************************************)
(* VersionManager::set_version_info and create_version_info                *)
(* (version_manager.rs 187-194, 219-241)                                   *)
(***************************************************************************)
SetVersionInfo(p) ==
    /\ proc[p].pc = "set_version_info"
    /\ versions_tree' = TreeInsert(versions_tree,
                                   VersionKey(proc[p].crate, proc[p].ver),
                                   to_vec(proc[p].info.val))
    /\ proc' = Return(p, Ok(<<>>))
    /\ UNCHANGED <<pureVars, latest_tree, memory_cache, now, fsVars,
                   started, saved>>

\* the record when the TTL is left out of expires_at
NewVersionInfo_noTtl(version, yanked, current_time) ==
    [version |-> version, yanked |-> yanked,
     created_at |-> current_time,
     expires_at |-> current_time]

\* the record create_version_info builds; info.val is the yanked flag
NewVersionInfo(version, yanked, current_time) ==
    [version |-> version, yanked |-> yanked,
     created_at |-> current_time,
     expires_at |-> current_time + DefaultTtl]

CreateVersionInfo(p) ==
    /\ proc[p].pc = "create_version_info"
    /\ LET version_info == NewVersionInfo(proc[p].ver, proc[p].info.val, now)
       IN /\ versions_tree' =
                 TreeInsert(versions_tree,
                            VersionKey(proc[p].crate, proc[p].ver),
                            to_vec(version_info))
          /\ proc' = Return(p, Ok(version_info))
    /\ UNCHANGED <<pureVars, latest_tree, memory_cache, now, fsVars,
                   started, saved>>

(***************************************************************************)
(* VersionManager::get_all_versions (version_manager.rs 197-216)           *)
(***************************************************************************)
\* lines 198-200
GetAllVersionsBegin(p) ==
    /\ proc[p].pc = "get_all_versions"
    /\ proc' = [proc EXCEPT ![p].pc = "vm_ga_next", ![p].time = now,
                            ![p].cursor = None, ![p].acc = <<>>]
    /\ UNCHANGED <<pureVars, dbVars, now, fsVars, started, saved>>

\* the loop when a record that expires at current_time counts as expired
GetAllVersionsNext_strict(p) ==
    /\ proc[p].pc = "vm_ga_next"
    /\ LET k == NextKey(versions_tree, proc[p].cursor, proc[p].crate \o ":")
           version_info == from_slice(versions_tree[k.val], VersionInfoFields)
       IN proc' =
            IF ~k.some THEN Return(p, Ok(proc[p].acc))
            ELSE IF ~version_info.ok THEN [proc EXCEPT ![p].cursor = k]
            ELSE IF proc[p].time < version_info.val.expires_at
            THEN [proc EXCEPT ![p].cursor = k,
                              ![p].acc = Append(@, version_info.val)]
            ELSE [proc EXCEPT ![p].cursor = k, ![p].pc = "vm_ga_rm"]
    /\ UNCHANGED <<pureVars, dbVars, now, fsVars, started, saved>>

\* lines 202-207, 211-215: one turn of the loop, up to the removal
GetAllVersionsNext(p) ==
    /\ proc[p].pc = "vm_ga_next"
    /\ LET k == NextKey(versions_tree, proc[p].cursor, proc[p].crate \o ":")
           version_info == from_slice(versions_tree[k.val], VersionInfoFields)
       IN proc' =
            IF ~k.some THEN Return(p, Ok(proc[p].acc))
            ELSE IF ~version_info.ok THEN [proc EXCEPT ![p].cursor = k]
            ELSE IF proc[p].time <= version_info.val.expires_at
            THEN [proc EXCEPT ![p].cursor = k,
                              ![p].acc = Append(@, version_info.val)]
            ELSE [proc EXCEPT ![p].cursor = k, ![p].pc = "vm_ga_rm"]
    /\ UNCHANGED <<pureVars, dbVars, now, fsVars, started, saved>>

\* lines 208-209
GetAllVersionsRemove(p) ==
    /\ proc[p].pc = "vm_ga_rm"
    /\ versions_tree' = TreeRemove(versions_tree, proc[p].cursor.val)
    /\ proc' = Goto(p, "vm_ga_next")
    /\ UNCHANGED <<pureVars, latest_tree, memory_cache, now, fsVars,
                   started, saved>>

(***************************************************************************)
(* VersionManager::cleanup_expired_data (version_manager.rs 244-279).      *)
(* cleaned_count only feeds a log line and is left out; acc collects the   *)
(* keys removed from latest_versions.                                      *)
(***************************************************************************)
\* lines 245-246
CleanupBegin(p) ==
    /\ proc[p].pc = "cleanup_expired_data"
    /\ proc' = [proc EXCEPT ![p].pc = "vm_cl_vnext", ![p].time = now,
                            ![p].cursor = None, ![p].acc = <<>>]
    /\ UNCHANGED <<pureVars, dbVars, now, fsVars, started, saved>>

\* lines 249-252: one turn of the loop over versions, up to the removal
CleanupVersionsNext(p) ==
    /\ proc[p].pc = "vm_cl_vnext"
    /\ LET k == NextKey(versions_tree, proc[p].cursor, "")
           version_info == from_slice(versions_tree[k.val], VersionInfoFields)
       IN proc' =
            IF ~k.some
            THEN [proc EXCEPT ![p].cursor = None, ![p].pc = "vm_cl_lnext"]
            ELSE IF version_info.ok
                    /\ expired(proc[p].time, version_info.val.expires_at)
            THEN [proc EXCEPT ![p].cursor = k, ![p].pc = "vm_cl_vrm"]
            ELSE [proc EXCEPT ![p].cursor = k]
    /\ UNCHANGED <<pureVars, dbVars, now, fsVars, started, saved>>

\* lines 253-254
CleanupVersionsRemove(p) ==
    /\ proc[p].pc = "vm_cl_vrm"
    /\ versions_tree' = TreeRemove(versions_tree, proc[p].cursor.val)
    /\ proc' = Goto(p, "vm_cl_vnext")
    /\ UNCHANGED <<pureVars, latest_tree, memory_cache, now, fsVars,
                   started, saved>>

\* the loop when a value that does not decode ends the sweep with its error
CleanupLatestNext_strict(p) ==
    /\ proc[p].pc = "vm_cl_lnext"
    /\ LET k == NextKey(latest_tree, proc[p].cursor, "")
           mapping == from_slice(latest_tree[k.val],
                                 LatestVersionMappingFields)
       IN proc' =
            IF ~k.some THEN Return(p, Ok(<<>>))
            ELSE IF ~mapping.ok THEN Return(p, mapping)
            ELSE IF expired(proc[p].time, mapping.val.expires_at)
            THEN [proc EXCEPT ![p].cursor = k, ![p].rec = Some(mapping.val),
                              ![p].pc = "vm_cl_lrm"]
            ELSE [proc EXCEPT ![p].cursor = k]
    /\ UNCHANGED <<pureVars, dbVars, now, fsVars, started, saved>>

\* lines 260-263, 274-278: one turn of the loop over latest_versions
CleanupLatestNext(p) ==
    /\ proc[p].pc = "vm_cl_lnext"
    /\ LET k == NextKey(latest_tree, proc[p].cursor, "")
           mapping == from_slice(latest_tree[k.val],
                                 LatestVersionMappingFields)
       IN proc' =
            IF ~k.some THEN Return(p, Ok(<<>>))
            ELSE IF mapping.ok
                    /\ expired(proc[p].time, mapping.val.expires_at)
            THEN [proc EXCEPT ![p].cursor = k, ![p].rec = Some(mapping.val),
                              ![p].pc = "vm_cl_lrm"]
            ELSE [proc EXCEPT ![p].cursor = k]
    /\ UNCHANGED <<pureVars, dbVars, now, fsVars, started, saved>>

\* lines 264-269: the entry is removed, then the map key of its crate_name
CleanupLatestRemove(p) ==
    /\ proc[p].pc = "vm_cl_lrm"
    /\ latest_tree' = TreeRemove(latest_tree, proc[p].cursor.val)
    /\ memory_cache' = TreeRemove(memory_cache, proc[p].rec.val.crate_name)
    /\ proc' = [proc EXCEPT ![p].pc = "vm_cl_lnext",
                            ![p].acc = Append(@, proc[p].cursor.val)]
    /\ UNCHANGED <<pureVars, versions_tree, now, fsVars, started, saved>>

\* lines 248-249 and 260-261: the iterator yields an I/O error and 'kv?'
\* returns it to the caller of the sweep
CleanupFail(p) ==
    /\ proc[p].pc \in {"vm_cl_vnext", "vm_cl_lnext"}
    /\ proc' = Return(p, Err("db"))
    /\ UNCHANGED <<pureVars, dbVars, now, fsVars, started, saved>>

(***************************************************************************)
(* The clock                                                               *)
(***************************************************************************)
\* A timer that is due fires before the clock reaches the next unit: one
\* unit is the janitor's period of 3600 seconds.
TimerDue ==
    \E p \in DOMAIN proc : proc[p].pc = "j_wait" /\ now >= proc[p].deadline

Tick ==
    /\ now < MaxTime
    /\ ~TimerDue
    /\ now' = now + 1
    /\ UNCHANGED <<pureVars, dbVars, fsVars, proc, started, saved>>

(***************************************************************************)
(* Inputs of the pure-function specifications                              *)
(***************************************************************************)
VersionNums == {"1.0.0", "1.0.0-rc1", "1.1.0", "2.0.0", "10.0.0"}
Selectors == {"1", "1.0", "1.0.0", "1.1.0", "9.9", "2", "10.0", ""}

RECURSIVE SeqsUpTo(_, _)
SeqsUpTo(S, n) ==
    IF n = 0 THEN {<<>>}
    ELSE LET shorter == SeqsUpTo(S, n - 1)
         IN shorter \cup {Append(s, x) : s \in shorter, x \in S}

VersionLists ==
    SeqsUpTo({CrateVersion(n, y) : n \in VersionNums, y \in BOOLEAN},
             MaxVersions)

Segments == {"a", "1.0", "download", ""}
PathPrefixes == {"/api/v1/crates", "/api/v2/crates", "/api/v1/crates/x", "api/v1/crates", ""}

RECURSIVE JoinSegs(_)
JoinSegs(segs) ==
    IF segs = <<>> THEN "" ELSE "/" \o Head(segs) \o JoinSegs(Tail(segs))

RequestPaths ==
    {p \o JoinSegs(t) : p \in PathPrefixes, t \in SeqsUpTo(Segments, MaxTail)}

(***************************************************************************)
(* Inputs of the CacheManager specification                                *)
(***************************************************************************)
CacheKeys ==
    {CacheKey("a", "1.0", "f"),     \* ./cache/a/1.0/f
     CacheKey("a", "", "x"),        \* ./cache/a/x
     CacheKey("", "a", "x"),        \* ./cache/a/x as well
     CacheKey("a", "1.0", "")}      \* ./cache/a/1.0/, a directory

Contents == {<<31, 139, 1>>, <<31, 139, 2>>}

(***************************************************************************)
(* Initial values                                                          *)
(***************************************************************************)
\* get_available_versions is not under study
ListIdle == listIn = <<>> /\ listOut = <<>>

PureIdle ==
    /\ selIn = [versions |-> <<>>, range |-> ""] /\ selOut = <<>>
    /\ parseIn = "" /\ parseOut = <<>>
    /\ ListIdle

\* CacheManager::new has created the storage directory; nothing is cached.
SysInit ==
    /\ now = 0
    /\ fsDirs = {<<>>, Cwd, StorageRoot}
    /\ fsFiles = <<>>
    /\ proc = [p \in Procs |-> IdleProc]
    /\ started = 0
    /\ saved = [k \in CacheKeys |-> <<>>]

\* The durable tables are empty and the in-process map is new.
DbEmpty ==
    /\ versions_tree = <<>>
    /\ latest_tree = <<>>
    /\ memory_cache = <<>>

sysVars == <<now, fsDirs, fsFiles, proc, started, saved, dbVars>>

(***************************************************************************)
(* Specification of selectVersion                                          *)
(***************************************************************************)
InitSelect ==
    /\ selIn \in [versions : VersionLists, range : Selectors]
    /\ selOut = <<>>
    /\ parseIn = "" /\ parseOut = <<>>
    /\ ListIdle
    /\ SysInit /\ DbEmpty

SelectVersion ==
    /\ selOut = <<>>
    /\ selOut' = <<select_version_for_range(selIn.versions, selIn.range)>>
    /\ UNCHANGED <<selIn, parseIn, parseOut, listIn, listOut, sysVars>>

NextSelect == SelectVersion

SpecSelect == InitSelect /\ [][NextSelect]_vars

(***************************************************************************)
(* Specification of path parsing                                           *)
(***************************************************************************)
InitParse ==
    /\ parseIn \in RequestPaths
    /\ parseOut = <<>>
    /\ selIn = [versions |-> <<>>, range |-> ""] /\ selOut = <<>>
    /\ ListIdle
    /\ SysInit /\ DbEmpty

ParseRequest ==
    /\ parseOut = <<>>
    /\ parseOut' = <<parse_crates_request(parseIn)>>
    /\ UNCHANGED <<selIn, selOut, parseIn, listIn, listOut, sysVars>>

NextParse == ParseRequest

SpecParse == InitParse /\ [][NextParse]_vars

(***************************************************************************)
(* RegistryClient (CratesApiClient): get_available_versions                *)
(* (crates_api.rs 175-224) and get_version_details (crates_api.rs 227-277) *)
(***************************************************************************)
\* What a request to the registry ends with: Err(..) when curl fails,
\* otherwise Ok of a status and a body.  A body is text that is not JSON, or
\* a JSON document given by the members the code reads.
HttpReply(status, body) == Ok([status |-> status, body |-> body])
NotJson == [json |-> FALSE]

\* the package metadata: "versions" is missing, or an array of numbers and
\* of values that are not numbers
Metadata(versions) == [json |-> TRUE, versions |-> versions]
JsonNumber(n) == [u64 |-> Some(n)]
JsonOther == [u64 |-> None]

\* a version document: "version" may be missing, and "num" and "yanked"
\* within it
Detail(version) == [json |-> TRUE, version |-> version]
DetailVersion(num, yanked) == [num |-> num, yanked |-> yanked]

\* Option::unwrap_or
unwrap_or(opt, default) == IF opt.some THEN opt.val ELSE default

\* get_version_details: transfer, status, parse, the fields "version" and
\* "num"; "yanked" defaults to false
get_version_details(reply) ==
    IF ~reply.ok THEN Err("curl")
    ELSE IF reply.val.status # 200 THEN Err("http")
    ELSE IF ~reply.val.body.json THEN Err("json")
    ELSE IF ~reply.val.body.version.some THEN Err("parse")
    ELSE IF ~reply.val.body.version.val.num.some THEN Err("parse")
    ELSE Ok(CrateVersion(reply.val.body.version.val.num.val,
                         unwrap_or(reply.val.body.version.val.yanked,
                                   FALSE)))

\* lines 209-220: the for loop over the version ids; details[id] is what
\* the registry answers to the detail request of that id
RECURSIVE ListLoop(_, _, _)
ListLoop(version_ids, details, versions) ==
    IF version_ids = <<>> THEN Ok(versions)
    ELSE LET id_num == Head(version_ids).u64
             version_info == get_version_details(details[id_num.val])
         IN IF id_num.some /\ version_info.ok
            THEN ListLoop(Tail(version_ids), details,
                          Append(versions, version_info.val))
            ELSE ListLoop(Tail(version_ids), details, versions)

\* the call when a detail request that fails makes it fail
get_available_versions_strict(metadata, details) ==
    IF ~metadata.ok THEN Err("curl")
    ELSE IF metadata.val.status # 200 THEN Err("http")
    ELSE IF ~metadata.val.body.json THEN Err("json")
    ELSE IF ~metadata.val.body.versions.some THEN Ok(<<>>)
    ELSE LET version_ids == metadata.val.body.versions.val
         IN IF \E i \in 1..Len(version_ids) :
                   /\ version_ids[i].u64.some
                   /\ ~get_version_details(
                          details[version_ids[i].u64.val]).ok
            THEN Err("detail")
            ELSE ListLoop(version_ids, details, <<>>)

\* lines 176-207 and 222: the metadata request, then the loop
get_available_versions(metadata, details) ==
    IF ~metadata.ok THEN Err("curl")
    ELSE IF metadata.val.status # 200 THEN Err("http")
    ELSE IF ~metadata.val.body.json THEN Err("json")
    ELSE IF ~metadata.val.body.versions.some THEN Ok(<<>>)
    ELSE ListLoop(metadata.val.body.versions.val, details, <<>>)

(***************************************************************************)
(* Specification of listVersions                                           *)
(***************************************************************************)
VersionIds == {1, 2}

MetadataReplies ==
    {Err("curl"), HttpReply(500, NotJson), HttpReply(200, NotJson),
     HttpReply(200, Metadata(None))}
    \cup {HttpReply(200, Metadata(Some(ids))) :
             ids \in SeqsUpTo({JsonNumber(n) : n \in VersionIds}
                                 \cup {JsonOther}, MaxVersions)}

DetailReplies ==
    {Err("curl"), HttpReply(404, NotJson), HttpReply(200, NotJson),
     HttpReply(200, Detail(None)),
     HttpReply(200, Detail(Some(DetailVersion(None, None))))}
    \cup {HttpReply(200, Detail(Some(DetailVersion(Some(num), yanked)))) :
             num \in {"1.0.0", "2.0.0"}, yanked \in {None, Some(TRUE)}}

InitList ==
    /\ listIn \in [metadata : MetadataReplies,
                   details : [VersionIds -> DetailReplies]]
    /\ listOut = <<>>
    /\ selIn = [versions |-> <<>>, range |-> ""] /\ selOut = <<>>
    /\ parseIn = "" /\ parseOut = <<>>
    /\ SysInit /\ DbEmpty

ListVersions ==
    /\ listOut = <<>>
    /\ listOut' = <<get_available_versions(listIn.metadata, listIn.details)>>
    /\ UNCHANGED <<selIn, selOut, parseIn, parseOut, listIn, sysVars>>

NextList == ListVersions

SpecList == InitList /\ [][NextList]_vars

(***************************************************************************)
(* Specification of the CacheManager interface: a caller makes calls one   *)
(* after the other while the operator may sweep and time passes            *)
(***************************************************************************)
CallCache(p, entry, k, b) ==
    /\ proc[p].pc = "idle"
    /\ started < MaxCalls
    /\ started' = started + 1
    /\ proc' = [proc EXCEPT ![p] = [IdleProc EXCEPT !.pc = entry, !.call = entry,
                                                    !.key = k, !.content = b]]
    /\ UNCHANGED <<pureVars, dbVars, now, fsVars, saved>>

CallIsCached(p, k) == CallCache(p, "is_cached", k, <<>>)
CallGetCachedContent(p, k) == CallCache(p, "get_cached_content", k, <<>>)
CallSaveToCache(p, k, b) == CallCache(p, "save_to_cache", k, b)

\* CacheManager::get_cache_stats (cache.rs 124-128), called while no other
\* call is running and run to completion
GetCacheStats(p) ==
    /\ proc[p].pc = "idle"
    /\ started < MaxCalls
    /\ started' = started + 1
    /\ proc' = [proc EXCEPT ![p] =
                   [IdleProc EXCEPT
                       !.call = "get_cache_stats",
                       !.result = Ok(calculate_stats_recursive(
                                        StorageRoot, fsDirs, fsFiles,
                                        DefaultStats))]]
    /\ UNCHANGED <<pureVars, dbVars, now, fsVars, saved>>

InitCache == PureIdle /\ SysInit /\ DbEmpty

Callers == {"t1"}

NextCache ==
    \/ \E p \in Callers, k \in CacheKeys : CallIsCached(p, k)
    \/ \E p \in Callers, k \in CacheKeys : CallGetCachedContent(p, k)
    \/ \E p \in Callers, k \in CacheKeys, b \in Contents :
           CallSaveToCache(p, k, b)
    \/ \E p \in Callers : IsCachedStep(p)
    \/ \E p \in Callers : GetCachedContentCheck(p)
    \/ \E p \in Callers : GetCachedContentRead(p)
    \/ \E p \in Callers : SaveToCacheDirs(p)
    \/ \E p \in Callers : SaveToCacheOpen(p)
    \/ \E p \in Callers : SaveToCacheData(p)
    \/ \E p \in Callers : GetCacheStats(p)
    \/ ClearExpiredCache
    \/ Tick

SpecCache == InitCache /\ [][NextCache]_vars

(***************************************************************************)
(* Specification of the VersionManager interface: a caller makes calls one *)
(* after the other while time passes.  The durable tables may hold bytes   *)
(* left by an earlier run that no longer decode.                           *)
(***************************************************************************)
IndexCrates == {"a", "b"}
\* the (crate, version) pairs the caller names; "2.0" is a yanked version
IndexPairs == {<<"a", "1.0">>, <<"a", "2.0">>, <<"b", "1.0">>}
IsYanked(version) == version = "2.0"

CallIndex(p, entry, crate_name, version, info) ==
    /\ proc[p].pc = "idle"
    /\ started < MaxIndexCalls
    /\ started' = started + 1
    /\ proc' = [proc EXCEPT ![p] =
                   [IdleProc EXCEPT !.pc = entry, !.call = entry,
                                    !.crate = crate_name, !.ver = version,
                                    !.info = info]]
    /\ UNCHANGED <<pureVars, dbVars, now, fsVars, saved>>

CallGetLatestVersion(p, c) == CallIndex(p, "get_latest_version", c, "", None)
CallSetLatestVersion(p, c, v) ==
    CallIndex(p, "set_latest_version", c, v, None)
CallGetVersionInfo(p, c, v) == CallIndex(p, "get_version_info", c, v, None)
CallCreateVersionInfo(p, c, v) ==
    CallIndex(p, "create_version_info", c, v, Some(IsYanked(v)))
\* the caller hands in a record of its own making, expiring at once
CallSetVersionInfo(p, c, v) ==
    CallIndex(p, "set_version_info", c, v,
              Some([version |-> v, yanked |-> IsYanked(v),
                    created_at |-> now, expires_at |-> now]))
CallGetAllVersions(p, c) == CallIndex(p, "get_all_versions", c, "", None)
CallCleanupExpiredData(p) ==
    CallIndex(p, "cleanup_expired_data", "", "", None)

\* The process is restarted between two calls: VersionManager::new makes an
\* empty map (version_manager.rs 99), the durable tables are reopened.
Restart ==
    /\ \A p \in DOMAIN proc : proc[p].pc \in {"idle", "j_wait"}
    /\ memory_cache # <<>>
    /\ memory_cache' = <<>>
    /\ proc' = [p \in DOMAIN proc |->
                   IF proc[p].pc = "j_wait"
                   THEN [proc[p] EXCEPT !.deadline = now] ELSE proc[p]]
    /\ UNCHANGED <<pureVars, versions_tree, latest_tree, now, fsVars,
                   started, saved>>

\* what an earlier run has left in the durable tables: records of two
\* crates written at times 0 and 1, and values that do not decode
EarlierVersions ==
    [k \in {"a:0.9", "a:1.0", "a:2.0", "b:1.0"} |->
        IF k = "a:0.9" THEN Malformed
        ELSE IF k = "a:2.0" THEN to_vec(NewVersionInfo("2.0", TRUE, 1))
        ELSE to_vec(NewVersionInfo("1.0", FALSE, 0))]
EarlierLatest ==
    [k \in {"a", "b"} |->
        IF k = "b" THEN Malformed
        ELSE to_vec([crate_name |-> "a", latest_version |-> "1.0",
                     updated_at |-> 0, expires_at |-> DefaultTtl])]

InitIndex ==
    /\ PureIdle /\ SysInit
    /\ memory_cache = <<>>
    /\ \/ versions_tree = <<>> /\ latest_tree = <<>>
       \/ /\ versions_tree = [k \in {"a:1.0"} |-> Malformed]
          /\ latest_tree = [k \in {"b"} |-> Malformed]
       \/ /\ versions_tree = EarlierVersions
          /\ latest_tree = EarlierLatest

IndexStep(p) ==
    \/ GetLatestMemory(p) \/ GetLatestDb(p)
    \/ GetLatestRemove(p) \/ GetLatestFill(p)
    \/ SetLatestDb(p) \/ SetLatestMemory(p)
    \/ GetVersionInfoDb(p) \/ GetVersionInfoRemove(p)
    \/ SetVersionInfo(p) \/ CreateVersionInfo(p)
    \/ GetAllVersionsBegin(p) \/ GetAllVersionsNext(p)
    \/ GetAllVersionsRemove(p)
    \/ CleanupBegin(p) \/ CleanupVersionsNext(p) \/ CleanupVersionsRemove(p)
    \/ CleanupLatestNext(p) \/ CleanupLatestRemove(p)

NextIndex ==
    \/ \E p \in Callers, c \in IndexCrates : CallGetLatestVersion(p, c)
    \/ \E p \in Callers, cv \in IndexPairs :
           CallSetLatestVersion(p, cv[1], cv[2])
    \/ \E p \in Callers, cv \in IndexPairs :
           CallGetVersionInfo(p, cv[1], cv[2])
    \/ \E p \in Callers, cv \in IndexPairs :
           CallCreateVersionInfo(p, cv[1], cv[2])
    \/ \E p \in Callers, cv \in IndexPairs :
           CallSetVersionInfo(p, cv[1], cv[2])
    \/ \E p \in Callers, c \in IndexCrates : CallGetAllVersions(p, c)
    \/ \E p \in Callers : CallCleanupExpiredData(p)
    \/ \E p \in Callers : IndexStep(p)
    \/ Restart
    \/ Tick

SpecIndex == InitIndex /\ [][NextIndex]_vars

(***************************************************************************)
(* ProxyRouter (ProxyService): one task per request.  handle_request and   *)
(* handle_crates_request contain no await on shared state; every call into *)
(* VersionManager, CacheManager and the registry client is a step of its   *)
(* own, and what the task does between two calls is joined to the next     *)
(* call.                                                                    *)
(***************************************************************************)
MaxRequests == 2   \* most requests started in Spec

Janitor == "janitor"

\* response bodies: a fixed or formatted text, or the bytes of an artifact
TextBody(text, detail) == [text |-> text, detail |-> detail, bytes |-> <<>>]
BytesBody(bytes) == [text |-> "", detail |-> "", bytes |-> bytes]

\* Response::builder().status(..).body(..), no header set by the handler
StatusResponse(status, text, detail) ==
    Response(status, TextBody(text, detail), None, None)

\* the 200 response with CONTENT_TYPE and CONTENT_LENGTH
ContentResponse(content) ==
    Response(200, BytesBody(content), Some("application/octet-stream"),
             Some(Len(content)))

\* the task's record once handle_request has returned
Done(rec, outcome) ==
    [IdleProc EXCEPT !.call = "handle_request", !.req = rec.req,
                     !.key = rec.key, !.out = outcome,
                     !.nlist = rec.nlist, !.ndl = rec.ndl]

Finish(t, outcome) == [proc EXCEPT ![t] = Done(proc[t], outcome)]

\* a call into VersionManager or CacheManager that returns to label ret
Invoke(rec, entry, ret) == [rec EXCEPT !.pc = entry, !.ret = ret]

\* the cache key when it is built from the selector of the request
BeginCache_selector(rec, actual_version) ==
    LET cache_filename ==
            IF ends_with(rec.filename, ".crate")
            THEN rec.crate \o "-" \o rec.selector \o ".crate"
            ELSE rec.filename
    IN Invoke([rec EXCEPT !.key = CacheKey(rec.crate, rec.selector,
                                             cache_filename),
                           !.ver = "", !.info = None, !.time = 0,
                           !.rec = None, !.versions = <<>>, !.idx = 0],
              "is_cached", "hcr_hit")

\* proxy.rs 286-294: the cache key is built from the resolved version and
\* is_cached is called; the locals of the resolution are out of scope
BeginCache(rec, actual_version) ==
    LET cache_filename ==
            IF ends_with(rec.filename, ".crate")
            THEN rec.crate \o "-" \o actual_version \o ".crate"
            ELSE rec.filename
    IN Invoke([rec EXCEPT !.key = CacheKey(rec.crate, actual_version,
                                             cache_filename),
                           !.ver = "", !.info = None, !.time = 0,
                           !.rec = None, !.versions = <<>>, !.idx = 0],
              "is_cached", "hcr_hit")

\* handle_request with the two checks exchanged: the path is parsed first
HandleRequest_pathFirst(t, req) ==
    /\ proc[t].pc = "idle"
    /\ started < MaxRequests
    /\ started' = started + 1
    /\ LET fresh == [IdleProc EXCEPT !.call = "handle_request", !.req = req]
           parsed == parse_crates_request(req.path)
       IN proc' = [proc EXCEPT ![t] =
            IF ~parsed.ok
            THEN Done(fresh, StatusResponse(400, "Bad Request", ""))
            ELSE IF req.method # "GET"
            THEN Done(fresh, StatusResponse(405, "Method Not Allowed", ""))
            ELSE LET rec == [fresh EXCEPT !.crate = parsed.crate_name,
                                          !.selector = parsed.version,
                                          !.filename = parsed.filename]
                 IN IF parsed.version = "latest"
                    THEN Invoke(rec, "get_latest_version", "ps_gl_first")
                    ELSE [rec EXCEPT !.pc = "hcr_list"]]
    /\ UNCHANGED <<pureVars, dbVars, now, fsVars, saved>>

\* handle_request (proxy.rs 333-359) up to the first call made by
\* handle_crates_request (proxy.rs 249-251, 263-265)
HandleRequest(t, req) ==
    /\ proc[t].pc = "idle"
    /\ started < MaxRequests
    /\ started' = started + 1
    /\ LET fresh == [IdleProc EXCEPT !.call = "handle_request", !.req = req]
           parsed == parse_crates_request(req.path)
       IN proc' = [proc EXCEPT ![t] =
            IF req.method # "GET"
            THEN Done(fresh, StatusResponse(405, "Method Not Allowed", ""))
            ELSE IF ~parsed.ok
            THEN Done(fresh, StatusResponse(400, "Bad Request", ""))
            ELSE LET rec == [fresh EXCEPT !.crate = parsed.crate_name,
                                          !.selector = parsed.version,
                                          !.filename = parsed.filename]
                 IN IF parsed.version = "latest"
                    THEN Invoke(rec, "get_latest_version", "ps_gl_first")
                    ELSE [rec EXCEPT !.pc = "hcr_list"]]
    /\ UNCHANGED <<pureVars, dbVars, now, fsVars, saved>>

\* ProxyService::get_latest_version (proxy.rs 164-175): the first lookup
\* has returned
PsGetLatestFirst(t) ==
    /\ proc[t].pc = "ps_gl_first"
    /\ LET r == proc[t].result
       IN proc' =
            IF ~r.ok
            THEN Finish(t, StatusResponse(500, "get_latest_version", r.err))
            ELSE IF r.val.some
            THEN [proc EXCEPT ![t] = BeginCache(proc[t], r.val.val)]
            ELSE [proc EXCEPT ![t].pc = "gac_list"]
    /\ UNCHANGED <<pureVars, dbVars, now, fsVars, started, saved>>

\* the choice when a longer number counts as the greater one, as with
\* numbers compared by value
LatestOf_numeric(versions) ==
    LET live == {i \in 1..Len(versions) : ~versions[i].yanked}
        less(a, b) == \/ Len(a) < Len(b)
                      \/ (Len(a) = Len(b) /\ str_lt(a, b))
    IN IF live = {} THEN None
       ELSE Some(versions[CHOOSE i \in live :
                     \A j \in live :
                         \/ less(versions[j].num, versions[i].num)
                         \/ (versions[j].num = versions[i].num /\ j <= i)
                 ].num)

\* the latest version get_and_cache_all_versions picks (proxy.rs 133-136):
\* the greatest num, as a string, among the versions not yanked
LatestOf(versions) ==
    LET live == {i \in 1..Len(versions) : ~versions[i].yanked}
    IN IF live = {} THEN None
       ELSE Some(versions[CHOOSE i \in live :
                     \A j \in live :
                         \/ str_lt(versions[j].num, versions[i].num)
                         \/ (versions[j].num = versions[i].num /\ j <= i)
                 ].num)

\* get_and_cache_all_versions without its for loop: no record is stored
GacContinue_pointerOnly(rec) ==
    Invoke(rec, "get_latest_version", "ps_gl_second")

\* get_and_cache_all_versions, the for loop (proxy.rs 145-155) and what
\* follows it (proxy.rs 180-183): the next create_version_info, or the
\* second lookup
GacContinue(rec) ==
    IF rec.idx < Len(rec.versions)
    THEN LET version == rec.versions[rec.idx + 1]
         IN Invoke([rec EXCEPT !.idx = rec.idx + 1, !.ver = version.num,
                                !.info = Some(version.yanked)],
                   "create_version_info", "gac_created")
    ELSE Invoke(rec, "get_latest_version", "ps_gl_second")

\* get_and_cache_all_versions with single-flight: a task that finds the
\* pointer another task has stored meanwhile does not ask the registry
GacList_coalesced(t, listing) ==
    /\ proc[t].pc = "gac_list"
    /\ LET populated == proc[t].crate \in DOMAIN latest_tree
           rec == IF populated THEN proc[t]
                  ELSE [proc[t] EXCEPT !.nlist = @ + 1]
           latest_version == LatestOf(listing.val)
       IN proc' = [proc EXCEPT ![t] =
            IF populated
            THEN Invoke(rec, "get_latest_version", "ps_gl_second")
            ELSE IF ~listing.ok
            THEN Done(rec, StatusResponse(500, "get_latest_version",
                                          listing.err))
            ELSE IF listing.val = <<>>
            THEN Invoke(rec, "get_latest_version", "ps_gl_second")
            ELSE IF latest_version.some
            THEN Invoke([rec EXCEPT !.versions = listing.val,
                                    !.ver = latest_version.val],
                        "set_latest_version", "gac_set")
            ELSE GacContinue([rec EXCEPT !.versions = listing.val])]
    /\ UNCHANGED <<pureVars, dbVars, now, fsVars, started, saved>>

\* get_and_cache_all_versions (proxy.rs 120-142): the registry is asked
\* for the versions; listing is what get_available_versions returns
GacList(t, listing) ==
    /\ proc[t].pc = "gac_list"
    /\ LET rec == [proc[t] EXCEPT !.nlist = @ + 1]
           latest_version == LatestOf(listing.val)
       IN proc' = [proc EXCEPT ![t] =
            IF ~listing.ok
            THEN Done(rec, StatusResponse(500, "get_latest_version",
                                          listing.err))
            ELSE IF listing.val = <<>>
            THEN Invoke(rec, "get_latest_version", "ps_gl_second")
            ELSE IF latest_version.some
            THEN Invoke([rec EXCEPT !.versions = listing.val,
                                    !.ver = latest_version.val],
                        "set_latest_version", "gac_set")
            ELSE GacContinue([rec EXCEPT !.versions = listing.val])]
    /\ UNCHANGED <<pureVars, dbVars, now, fsVars, started, saved>>

\* proxy.rs 140: set_latest_version(..)? has returned
GacAfterSet(t) ==
    /\ proc[t].pc = "gac_set"
    /\ proc' =
         IF ~proc[t].result.ok
         THEN Finish(t, StatusResponse(500, "get_latest_version",
                                       proc[t].result.err))
         ELSE [proc EXCEPT ![t] = GacContinue(proc[t])]
    /\ UNCHANGED <<pureVars, dbVars, now, fsVars, started, saved>>

\* proxy.rs 146-154: create_version_info has returned, an error is logged
GacAfterCreate(t) ==
    /\ proc[t].pc = "gac_created"
    /\ proc' = [proc EXCEPT ![t] = GacContinue(proc[t])]
    /\ UNCHANGED <<pureVars, dbVars, now, fsVars, started, saved>>

\* proxy.rs 180-183 and 251-261: the second lookup has returned
PsGetLatestSecond(t) ==
    /\ proc[t].pc = "ps_gl_second"
    /\ LET r == proc[t].result
       IN proc' =
            IF ~r.ok
            THEN Finish(t, StatusResponse(500, "get_latest_version", r.err))
            ELSE IF r.val.some
            THEN [proc EXCEPT ![t] = BeginCache(proc[t], r.val.val)]
            ELSE Finish(t, StatusResponse(500, "get_latest_version",
                                          "invalid_request"))
    /\ UNCHANGED <<pureVars, dbVars, now, fsVars, started, saved>>

\* the explicit branch when the selected version is stored as the pointer
\* of the crate
HcrList_recording(t, listing) ==
    /\ proc[t].pc = "hcr_list"
    /\ LET rec == [proc[t] EXCEPT !.nlist = @ + 1]
           selected_version ==
               select_version_for_range(listing.val, rec.selector)
       IN proc' = [proc EXCEPT ![t] =
            IF ~listing.ok
            THEN Done(rec, StatusResponse(500, "get_available_versions",
                                          listing.err))
            ELSE IF selected_version.some
            THEN Invoke([rec EXCEPT !.ver = selected_version.val.num],
                        "set_latest_version", "gac_set")
            ELSE Done(rec, StatusResponse(404, "no such version",
                                          rec.selector))]
    /\ UNCHANGED <<pureVars, dbVars, now, fsVars, started, saved>>

\* the explicit branch when an unmatched selector is taken as the version
HcrList_passThrough(t, listing) ==
    /\ proc[t].pc = "hcr_list"
    /\ LET rec == [proc[t] EXCEPT !.nlist = @ + 1]
           selected_version ==
               select_version_for_range(listing.val, rec.selector)
       IN proc' = [proc EXCEPT ![t] =
            IF ~listing.ok
            THEN Done(rec, StatusResponse(500, "get_available_versions",
                                          listing.err))
            ELSE IF selected_version.some
            THEN BeginCache(rec, selected_version.val.num)
            ELSE BeginCache(rec, rec.selector)]
    /\ UNCHANGED <<pureVars, dbVars, now, fsVars, started, saved>>

\* proxy.rs 263-283: an explicit selector is resolved against the registry
HcrList(t, listing) ==
    /\ proc[t].pc = "hcr_list"
    /\ LET rec == [proc[t] EXCEPT !.nlist = @ + 1]
           selected_version ==
               select_version_for_range(listing.val, rec.selector)
       IN proc' = [proc EXCEPT ![t] =
            IF ~listing.ok
            THEN Done(rec, StatusResponse(500, "get_available_versions",
                                          listing.err))
            ELSE IF selected_version.some
            THEN BeginCache(rec, selected_version.val.num)
            ELSE Done(rec, StatusResponse(404, "no such version",
                                          rec.selector))]
    /\ UNCHANGED <<pureVars, dbVars, now, fsVars, started, saved>>

\* the handler when the answer of is_cached is not used: it always downloads
HcrHit_refetch(t) ==
    /\ proc[t].pc = "hcr_hit"
    /\ proc' = [proc EXCEPT ![t].pc = "dl_transfer"]
    /\ fsDirs' = get_cache_path_dirs(proc[t].key, fsDirs, fsFiles)
    /\ UNCHANGED <<pureVars, dbVars, now, fsFiles, started, saved>>

\* proxy.rs 294-296 and 307-308: is_cached has returned.  On a hit the
\* content is read; on a miss get_cache_path is called for the download.
HcrHit(t) ==
    /\ proc[t].pc = "hcr_hit"
    /\ IF proc[t].result.val
       THEN /\ proc' = [proc EXCEPT ![t] =
                          Invoke(proc[t], "get_cached_content",
                                 "hcr_hit_read")]
            /\ UNCHANGED fsDirs
       ELSE /\ proc' = [proc EXCEPT ![t].pc = "dl_transfer"]
            /\ fsDirs' = get_cache_path_dirs(proc[t].key, fsDirs, fsFiles)
    /\ UNCHANGED <<pureVars, dbVars, now, fsFiles, started, saved>>

\* proxy.rs 296-302 and 316-322: get_cached_content(..)? has returned; an
\* error leaves handle_request as Err
HcrContent(t) ==
    proc' =
        IF proc[t].result.ok
        THEN Finish(t, ContentResponse(proc[t].result.val))
        ELSE Finish(t, HandlerError(proc[t].result.err))

HcrHitRead(t) ==
    /\ proc[t].pc = "hcr_hit_read"
    /\ HcrContent(t)
    /\ UNCHANGED <<pureVars, dbVars, now, fsVars, started, saved>>

HcrMissRead(t) ==
    /\ proc[t].pc = "hcr_miss_read"
    /\ HcrContent(t)
    /\ UNCHANGED <<pureVars, dbVars, now, fsVars, started, saved>>

\* the gzip magic number 0x1f 0x8b
GzipMagic == <<31, 139>>

\* starts_with that compares the lengths only
bytes_start_with_len(data, prefix) == Len(prefix) <= Len(data)

\* <[u8]>::starts_with
bytes_start_with(data, prefix) ==
    Len(prefix) <= Len(data) /\ SubSeq(data, 1, Len(prefix)) = prefix

\* the download without the test of the gzip magic number
DlTransfer_noMagic(t, reply) ==
    /\ proc[t].pc = "dl_transfer"
    /\ LET rec == [proc[t] EXCEPT !.ndl = @ + 1]
       IN proc' = [proc EXCEPT ![t] =
            IF ~reply.ok
            THEN Done(rec, StatusResponse(500, "download", reply.err))
            ELSE IF reply.val.status # 200
            THEN Done(rec, StatusResponse(500, "download",
                                          "download_failed"))
            ELSE [rec EXCEPT !.content = reply.val.data,
                             !.pc = "dl_open"]]
    /\ UNCHANGED <<pureVars, dbVars, now, fsVars, started, saved>>

\* the download with one more attempt after a transfer that failed
DlTransfer_retry(t, reply) ==
    /\ proc[t].pc = "dl_transfer"
    /\ LET rec == [proc[t] EXCEPT !.ndl = @ + 1]
       IN proc' = [proc EXCEPT ![t] =
            IF ~reply.ok /\ rec.ndl < 2
            THEN rec
            ELSE IF ~reply.ok
            THEN Done(rec, StatusResponse(500, "download", reply.err))
            ELSE IF reply.val.status # 200
            THEN Done(rec, StatusResponse(500, "download",
                                          "download_failed"))
            ELSE IF ~bytes_start_with(reply.val.data, GzipMagic)
            THEN Done(rec, StatusResponse(500, "download",
                                          "invalid_file_format"))
            ELSE [rec EXCEPT !.content = reply.val.data,
                             !.pc = "dl_open"]]
    /\ UNCHANGED <<pureVars, dbVars, now, fsVars, started, saved>>

\* download_crate_version (crates_api.rs 127-164): the transfer and the
\* two checks; reply is what the registry sent, or the curl error
DlTransfer(t, reply) ==
    /\ proc[t].pc = "dl_transfer"
    /\ LET rec == [proc[t] EXCEPT !.ndl = @ + 1]
       IN proc' = [proc EXCEPT ![t] =
            IF ~reply.ok
            THEN Done(rec, StatusResponse(500, "download", reply.err))
            ELSE IF reply.val.status # 200
            THEN Done(rec, StatusResponse(500, "download",
                                          "download_failed"))
            ELSE IF ~bytes_start_with(reply.val.data, GzipMagic)
            THEN Done(rec, StatusResponse(500, "download",
                                          "invalid_file_format"))
            ELSE [rec EXCEPT !.content = reply.val.data,
                             !.pc = "dl_open"]]
    /\ UNCHANGED <<pureVars, dbVars, now, fsVars, started, saved>>

\* the write when the bytes go to a temporary file that is renamed later:
\* the destination is not touched when the write begins
DlOpen_temp(t) ==
    /\ proc[t].pc = "dl_open"
    /\ LET path == cache_path(proc[t].key)
       IN IF CanOpenForWrite(path, fsDirs, fsFiles)
          THEN /\ proc' = [proc EXCEPT ![t].pc = "dl_data", ![t].fd = TRUE]
               /\ UNCHANGED <<fsFiles, saved>>
          ELSE /\ proc' = Finish(t, StatusResponse(500, "download", "io"))
               /\ UNCHANGED <<fsFiles, saved>>
    /\ UNCHANGED <<pureVars, dbVars, now, fsDirs, started>>

\* crates_api.rs 167-168, fs::write: the file is created or truncated
DlOpen(t) ==
    /\ proc[t].pc = "dl_open"
    /\ LET path == cache_path(proc[t].key)
       IN IF CanOpenForWrite(path, fsDirs, fsFiles)
          THEN /\ fsFiles' = fs_write_open(path, fsFiles, now)
               /\ proc' = [proc EXCEPT ![t].pc = "dl_data", ![t].fd = TRUE]
               /\ saved' = Forget(Resolve(path))
          ELSE /\ proc' = Finish(t, StatusResponse(500, "download", "io"))
               /\ UNCHANGED <<fsFiles, saved>>
    /\ UNCHANGED <<pureVars, dbVars, now, fsDirs, started>>

\* crates_api.rs 167-170 and proxy.rs 311-316: the bytes are written,
\* download_crate_version returns Ok and get_cached_content is called
DlData(t) ==
    /\ proc[t].pc = "dl_data"
    /\ IF proc[t].fd
       THEN fsFiles' = fs_write_data(cache_path(proc[t].key), fsFiles,
                                     proc[t].content)
       ELSE UNCHANGED fsFiles
    /\ saved' = Forget(Resolve(cache_path(proc[t].key)))
    /\ proc' = [proc EXCEPT ![t] =
                   Invoke([proc[t] EXCEPT !.fd = FALSE, !.content = <<>>],
                          "get_cached_content", "hcr_miss_read")]
    /\ UNCHANGED <<pureVars, dbVars, now, fsDirs, started>>

(***************************************************************************)
(* Janitor: start_cleanup_task (proxy.rs 95-117)                           *)
(***************************************************************************)
JanitorInterval == 1   \* Duration::from_secs(3600), in clock units

\* the janitor between two sweeps
JanitorProc == [IdleProc EXCEPT !.pc = "j_wait", !.ret = "j_log"]

\* interval.tick().await completes and cleanup_expired_data is called
JanitorTick ==
    /\ proc[Janitor].pc = "j_wait"
    /\ now >= proc[Janitor].deadline
    /\ proc' = [proc EXCEPT ![Janitor] =
                   Invoke([proc[Janitor] EXCEPT
                              !.call = "cleanup_expired_data",
                              !.deadline = @ + JanitorInterval],
                          "cleanup_expired_data", "j_log")]
    /\ UNCHANGED <<pureVars, dbVars, now, fsVars, started, saved>>

\* the loop when the Err arm leaves it: the task ends at the first error
JanitorLog_stopOnError ==
    /\ proc[Janitor].pc = "j_log"
    /\ proc' = [proc EXCEPT ![Janitor] =
                   IF proc[Janitor].result.ok
                   THEN [JanitorProc EXCEPT
                            !.deadline = proc[Janitor].deadline,
                            !.result = proc[Janitor].result]
                   ELSE [proc[Janitor] EXCEPT !.pc = "j_stopped"]]
    /\ UNCHANGED <<pureVars, dbVars, now, fsVars, started, saved>>

\* the match on the result: either arm logs and the loop goes on
JanitorLog ==
    /\ proc[Janitor].pc = "j_log"
    /\ proc' = [proc EXCEPT ![Janitor] =
                   [JanitorProc EXCEPT !.deadline = proc[Janitor].deadline,
                                       !.result = proc[Janitor].result]]
    /\ UNCHANGED <<pureVars, dbVars, now, fsVars, started, saved>>

(***************************************************************************)
(* Specification of the server within one unit of the clock: two request   *)
(* tasks, the operator's sweep of the artifact cache, and restarts.  The   *)
(* clock reads time since 1970 and is past the TTL.                        *)
(***************************************************************************)
Requests ==
    {Request("GET", "/api/v1/crates/a/download"),
     Request("GET", "/api/v1/crates/a/1.0/download"),
     Request("GET", "/api/v1/crates/a/1.0/foo"),
     Request("GET", "/api/v1/crates/a"),
     Request("GET", "/api/v2/crates/a/download"),
     Request("POST", "/api/v1/crates/a/download"),
     Request("POST", "/api/v1/crates/a")}

\* what the registry may answer to a version listing
UpstreamBodies == {"busy", "down"}
Listings ==
    {Err(b) : b \in UpstreamBodies} \cup
    {Ok(<<>>),
     Ok(<<CrateVersion("1.0.0", FALSE)>>),
     Ok(<<CrateVersion("1.0.0", TRUE)>>),
     Ok(<<CrateVersion("10.0.0", FALSE), CrateVersion("2.0.0", FALSE)>>),
     Ok(<<CrateVersion("1.0.0", FALSE), CrateVersion("1.1.0", TRUE)>>)}

\* what the registry may answer to a download
DownloadReply(status, data) == Ok([status |-> status, data |-> data])
Downloads ==
    {Err("curl"), DownloadReply(404, <<>>), DownloadReply(200, <<60, 104>>)}
    \cup {DownloadReply(200, b) : b \in Contents}

\* a pointer and a record written by an earlier run, expired since
StaleLatest ==
    [crate_name |-> "a", latest_version |-> "1.0.0",
     updated_at |-> 0, expires_at |-> DefaultTtl]
StaleVersion == NewVersionInfo("1.0.0", FALSE, 0)

\* The server has started and the storage directory exists.  The durable
\* tables are empty, or hold what an earlier run left: a pointer that no
\* longer decodes, or a pointer and a record that have expired.
Init ==
    /\ PureIdle
    /\ now = DefaultTtl + 1
    /\ fsDirs = {<<>>, Cwd, StorageRoot}
    /\ fsFiles = <<>>
    /\ proc = [p \in Procs |-> IdleProc]
    /\ started = 0
    /\ saved = <<>>
    /\ memory_cache = <<>>
    /\ \/ versions_tree = <<>> /\ latest_tree = <<>>
       \/ versions_tree = <<>> /\ latest_tree = [k \in {"a"} |-> Malformed]
       \/ /\ versions_tree = [k \in {"a:1.0.0"} |-> to_vec(StaleVersion)]
          /\ latest_tree = [k \in {"a"} |-> to_vec(StaleLatest)]

Next ==
    \/ \E t \in Procs, req \in Requests : HandleRequest(t, req)
    \/ \E t \in Procs : PsGetLatestFirst(t)
    \/ \E t \in Procs, listing \in Listings : GacList(t, listing)
    \/ \E t \in Procs : GacAfterSet(t)
    \/ \E t \in Procs : GacAfterCreate(t)
    \/ \E t \in Procs : PsGetLatestSecond(t)
    \/ \E t \in Procs, listing \in Listings : HcrList(t, listing)
    \/ \E t \in Procs : HcrHit(t)
    \/ \E t \in Procs : HcrHitRead(t)
    \/ \E t \in Procs : HcrMissRead(t)
    \/ \E t \in Procs, reply \in Downloads : DlTransfer(t, reply)
    \/ \E t \in Procs : DlOpen(t)
    \/ \E t \in Procs : DlData(t)
    \/ \E t \in Procs : GetLatestMemory(t)
    \/ \E t \in Procs : GetLatestDb(t)
    \/ \E t \in Procs : GetLatestRemove(t)
    \/ \E t \in Procs : GetLatestFill(t)
    \/ \E t \in Procs : SetLatestDb(t)
    \/ \E t \in Procs : SetLatestMemory(t)
    \/ \E t \in Procs : CreateVersionInfo(t)
    \/ \E t \in Procs : IsCachedStep(t)
    \/ \E t \in Procs : GetCachedContentCheck(t)
    \/ \E t \in Procs : GetCachedContentRead(t)
    \/ ClearExpiredCache
    \/ Restart

Spec == Init /\ [][Next]_vars

(***************************************************************************)
(* Specification of the server handling one request at a time: a single    *)
(* connection sends its requests one after the other, while the operator   *)
(* may sweep the artifact cache and the server may restart                 *)
(***************************************************************************)
NextRequest ==
    \/ \E t \in Callers, req \in Requests : HandleRequest(t, req)
    \/ \E t \in Callers : PsGetLatestFirst(t)
    \/ \E t \in Callers, listing \in Listings : GacList(t, listing)
    \/ \E t \in Callers : GacAfterSet(t)
    \/ \E t \in Callers : GacAfterCreate(t)
    \/ \E t \in Callers : PsGetLatestSecond(t)
    \/ \E t \in Callers, listing \in Listings : HcrList(t, listing)
    \/ \E t \in Callers : HcrHit(t)
    \/ \E t \in Callers : HcrHitRead(t)
    \/ \E t \in Callers : HcrMissRead(t)
    \/ \E t \in Callers, reply \in Downloads : DlTransfer(t, reply)
    \/ \E t \in Callers : DlOpen(t)
    \/ \E t \in Callers : DlData(t)
    \/ \E t \in Callers : GetLatestMemory(t)
    \/ \E t \in Callers : GetLatestDb(t)
    \/ \E t \in Callers : GetLatestRemove(t)
    \/ \E t \in Callers : GetLatestFill(t)
    \/ \E t \in Callers : SetLatestDb(t)
    \/ \E t \in Callers : SetLatestMemory(t)
    \/ \E t \in Callers : CreateVersionInfo(t)
    \/ \E t \in Callers : IsCachedStep(t)
    \/ \E t \in Callers : GetCachedContentCheck(t)
    \/ \E t \in Callers : GetCachedContentRead(t)
    \/ ClearExpiredCache
    \/ Restart

SpecRequest == Init /\ [][NextRequest]_vars

(***************************************************************************)
(* Specification of concurrent requests for the latest version of one      *)
(* crate: two tasks and restarts                                           *)
(***************************************************************************)
LatestRequests == {Request("GET", "/api/v1/crates/a/download")}

NextLatest ==
    \/ \E t \in Procs, req \in LatestRequests : HandleRequest(t, req)
    \/ \E t \in Procs : PsGetLatestFirst(t)
    \/ \E t \in Procs, listing \in Listings : GacList(t, listing)
    \/ \E t \in Procs : GacAfterSet(t)
    \/ \E t \in Procs : GacAfterCreate(t)
    \/ \E t \in Procs : PsGetLatestSecond(t)
    \/ \E t \in Procs : HcrHit(t)
    \/ \E t \in Procs : HcrHitRead(t)
    \/ \E t \in Procs : HcrMissRead(t)
    \/ \E t \in Procs, reply \in Downloads : DlTransfer(t, reply)
    \/ \E t \in Procs : DlOpen(t)
    \/ \E t \in Procs : DlData(t)
    \/ \E t \in Procs : GetLatestMemory(t)
    \/ \E t \in Procs : GetLatestDb(t)
    \/ \E t \in Procs : GetLatestRemove(t)
    \/ \E t \in Procs : GetLatestFill(t)
    \/ \E t \in Procs : SetLatestDb(t)
    \/ \E t \in Procs : SetLatestMemory(t)
    \/ \E t \in Procs : CreateVersionInfo(t)
    \/ \E t \in Procs : IsCachedStep(t)
    \/ \E t \in Procs : GetCachedContentCheck(t)
    \/ \E t \in Procs : GetCachedContentRead(t)
    \/ Restart

SpecLatest == Init /\ [][NextLatest]_vars

(***************************************************************************)
(* Specification of one task serving download requests whose name or       *)
(* version segment is plain, empty or ".."                                 *)
(***************************************************************************)
ContainNames == {"a", "..", ""}
\* with a selector, with "..", with an empty segment, or without a segment
ContainSelectors == {"/1.0", "/..", "/", ""}
ContainRequests ==
    {Request("GET", "/api/v1/crates/" \o n \o v \o "/download") :
        n \in ContainNames, v \in ContainSelectors}

NextContain ==
    \/ \E t \in Callers, req \in ContainRequests : HandleRequest(t, req)
    \/ \E t \in Callers : PsGetLatestFirst(t)
    \/ \E t \in Callers, listing \in Listings : GacList(t, listing)
    \/ \E t \in Callers : GacAfterSet(t)
    \/ \E t \in Callers : GacAfterCreate(t)
    \/ \E t \in Callers : PsGetLatestSecond(t)
    \/ \E t \in Callers, listing \in Listings : HcrList(t, listing)
    \/ \E t \in Callers : HcrHit(t)
    \/ \E t \in Callers : HcrHitRead(t)
    \/ \E t \in Callers : HcrMissRead(t)
    \/ \E t \in Callers, reply \in Downloads : DlTransfer(t, reply)
    \/ \E t \in Callers : DlOpen(t)
    \/ \E t \in Callers : DlData(t)
    \/ \E t \in Callers : GetLatestMemory(t)
    \/ \E t \in Callers : GetLatestDb(t)
    \/ \E t \in Callers : GetLatestRemove(t)
    \/ \E t \in Callers : GetLatestFill(t)
    \/ \E t \in Callers : SetLatestDb(t)
    \/ \E t \in Callers : SetLatestMemory(t)
    \/ \E t \in Callers : CreateVersionInfo(t)
    \/ \E t \in Callers : IsCachedStep(t)
    \/ \E t \in Callers : GetCachedContentCheck(t)
    \/ \E t \in Callers : GetCachedContentRead(t)
    \/ ClearExpiredCache
    \/ Restart


SpecContain == Init /\ [][NextContain]_vars

(***************************************************************************)
(* Specification of the janitor: the background task sweeps the index at   *)
(* every period while a caller fills it and time passes                    *)
(***************************************************************************)
InitJanitor ==
    /\ PureIdle /\ DbEmpty
    /\ now = 0
    /\ fsDirs = {<<>>, Cwd, StorageRoot}
    /\ fsFiles = <<>>
    /\ proc = [p \in Callers \cup {Janitor} |->
                  IF p = Janitor THEN JanitorProc ELSE IdleProc]
    /\ started = 0
    /\ saved = <<>>

NextJanitor ==
    \/ \E p \in Callers, cv \in IndexPairs :
           CallSetLatestVersion(p, cv[1], cv[2])
    \/ \E p \in Callers, cv \in IndexPairs :
           CallCreateVersionInfo(p, cv[1], cv[2])
    \/ \E p \in Callers : SetLatestDb(p)
    \/ \E p \in Callers : SetLatestMemory(p)
    \/ \E p \in Callers : CreateVersionInfo(p)
    \/ JanitorTick
    \/ JanitorLog
    \/ CleanupBegin(Janitor)
    \/ CleanupVersionsNext(Janitor)
    \/ CleanupVersionsRemove(Janitor)
    \/ CleanupLatestNext(Janitor)
    \/ CleanupLatestRemove(Janitor)
    \/ CleanupFail(Janitor)
    \/ Tick

SpecJanitor == InitJanitor /\ [][NextJanitor]_vars

\* what the janitor task does by itself
JanitorStep ==
    \/ JanitorTick
    \/ JanitorLog
    \/ CleanupBegin(Janitor)
    \/ CleanupVersionsNext(Janitor)
    \/ CleanupVersionsRemove(Janitor)
    \/ CleanupLatestNext(Janitor)
    \/ CleanupLatestRemove(Janitor)
    \/ CleanupFail(Janitor)

\* The janitor by itself; the tables are empty or hold what an earlier run
\* left.
InitJanitorLive ==
    /\ PureIdle
    /\ now = 0
    /\ fsDirs = {<<>>, Cwd, StorageRoot}
    /\ fsFiles = <<>>
    /\ proc = [p \in Callers \cup {Janitor} |->
                  IF p = Janitor THEN JanitorProc ELSE IdleProc]
    /\ started = 0
    /\ saved = <<>>
    /\ memory_cache = <<>>
    /\ \/ versions_tree = <<>> /\ latest_tree = <<>>
       \/ /\ versions_tree = EarlierVersions
          /\ latest_tree = EarlierLatest

NextJanitorLive ==
    \/ JanitorStep
    \/ Tick

\* The runtime keeps polling the spawned task and time passes: the task is
\* never left waiting for ever at a step it can take, and the clock is never
\* held back for ever.
SpecJanitorLive ==
    /\ InitJanitorLive /\ [][NextJanitorLive]_vars
    /\ WF_vars(JanitorStep) /\ WF_vars(Tick)

\* The janitor beside one caller that looks pointers up; the tables hold
\* what an earlier run left, the pointer of crate a being valid until
\* default_ttl.
InitStale ==
    /\ PureIdle
    /\ now = 0
    /\ fsDirs = {<<>>, Cwd, StorageRoot}
    /\ fsFiles = <<>>
    /\ proc = [p \in Callers \cup {Janitor} |->
                  IF p = Janitor THEN JanitorProc ELSE IdleProc]
    /\ started = 0
    /\ saved = <<>>
    /\ memory_cache = <<>>
    /\ versions_tree = EarlierVersions
    /\ latest_tree = EarlierLatest

\* what a caller of get_latest_version does once the call is made
LookupStep(p) ==
    \/ GetLatestMemory(p) \/ GetLatestDb(p)
    \/ GetLatestRemove(p) \/ GetLatestFill(p)

\* The interval timer past the horizon of the clock: the hours go on and
\* the janitor sweeps every hour, while the clock reads MaxTime, by which
\* every pointer of the table has expired.
JanitorTickLate ==
    /\ proc[Janitor].pc = "j_wait"
    /\ now = MaxTime
    /\ proc[Janitor].deadline > MaxTime
    /\ proc' = [proc EXCEPT ![Janitor] =
                   Invoke([proc[Janitor] EXCEPT
                              !.call = "cleanup_expired_data"],
                          "cleanup_expired_data", "j_log")]
    /\ UNCHANGED <<pureVars, dbVars, now, fsVars, started, saved>>

\* the janitor while the database answers every read of its sweeps
SweepStep ==
    \/ JanitorTick \/ JanitorTickLate \/ JanitorLog
    \/ CleanupBegin(Janitor)
    \/ CleanupVersionsNext(Janitor) \/ CleanupVersionsRemove(Janitor)
    \/ CleanupLatestNext(Janitor) \/ CleanupLatestRemove(Janitor)

NextStale ==
    \/ \E p \in Callers, c \in IndexCrates : CallGetLatestVersion(p, c)
    \/ \E p \in Callers : LookupStep(p)
    \/ SweepStep
    \/ Tick

\* The janitor and the clock as in SpecJanitorLive; a lookup that was
\* started goes on to its end.
SpecStale ==
    /\ InitStale /\ [][NextStale]_vars
    /\ WF_vars(SweepStep) /\ WF_vars(Tick)
    /\ \A p \in Callers : WF_vars(LookupStep(p))

(***************************************************************************)
(* Claims about selectVersion (SpecSelect)                                 *)
(***************************************************************************)
\* The four match rules of the selector, as the specification lists them.
FourRules(num, r) ==
    \/ num = r
    \/ starts_with(num, r)
    \/ (CountChar(r, ".") = 0 /\ starts_with(num, r \o "."))
    \/ (CountChar(r, ".") = 1 /\ starts_with(num, r \o "."))

\* The first index of the list that satisfies P, 0 when there is none.
FirstIndex(vs, P(_)) ==
    IF \E i \in 1..Len(vs) : P(vs[i])
    THEN CHOOSE i \in 1..Len(vs) : P(vs[i]) /\ \A j \in 1..(i - 1) : ~P(vs[j])
    ELSE 0

\* C6: selectVersion returns the first element, in list order, that is not
\* yanked and satisfies one of the four match rules; it returns no match
\* when there is no such element, and never a yanked version.
C6_SelectFirstMatch ==
    selOut # <<>> =>
        LET Eligible(v) == ~v.yanked /\ FourRules(v.num, selIn.range)
            i == FirstIndex(selIn.versions, Eligible)
        IN /\ (i = 0 => selOut[1] = None)
           /\ (i # 0 => selOut[1] = Some(selIn.versions[i]))
           /\ (selOut[1].some => ~selOut[1].val.yanked)

\* A yanked element that matches is passed over and a later one is returned.
C6_Witness ==
    /\ selOut # <<>> /\ selOut[1].some
    /\ Len(selIn.versions) >= 2
    /\ selIn.versions[1].yanked
    /\ starts_with(selIn.versions[1].num, selIn.range)
    /\ selOut[1].val = selIn.versions[2]

\* The precondition of C7: zero or one dot, and no version equals the selector.
ShortSelector ==
    /\ CountChar(selIn.range, ".") <= 1
    /\ \A i \in 1..Len(selIn.versions) : selIn.versions[i].num # selIn.range

\* C7 as stated: a zero-dot or one-dot selector that equals no version
\* selects the first non-yanked version that starts with the selector
\* followed by a dot.
C7_Original ==
    (selOut # <<>> /\ ShortSelector) =>
        LET Dotted(v) == ~v.yanked /\ starts_with(v.num, selIn.range \o ".")
            i == FirstIndex(selIn.versions, Dotted)
        IN selOut[1] = IF i = 0 THEN None ELSE Some(selIn.versions[i])

\* C7 amended: such a selector selects the first non-yanked version that
\* starts with the selector itself; the character after the selector need
\* not be a dot.
C7_ShortSelectorIsPrefix ==
    (selOut # <<>> /\ ShortSelector) =>
        LET Prefixed(v) == ~v.yanked /\ starts_with(v.num, selIn.range)
            i == FirstIndex(selIn.versions, Prefixed)
        IN selOut[1] = IF i = 0 THEN None ELSE Some(selIn.versions[i])

\* Selector "1" picks "10.0.0" although "1.0.0" comes later in the list.
C7_Witness ==
    /\ selOut # <<>> /\ ShortSelector
    /\ selIn.range = "1"
    /\ Len(selIn.versions) >= 2
    /\ selIn.versions[1] = CrateVersion("10.0.0", FALSE)
    /\ selIn.versions[2] = CrateVersion("1.0.0", FALSE)
    /\ selOut[1] = Some(selIn.versions[1])

(***************************************************************************)
(* Claims about path parsing (SpecParse)                                   *)
(***************************************************************************)
DownloadPath(n, v) == "/api/v1/crates/" \o n \o "/" \o v \o "/download"
LatestPath(n) == "/api/v1/crates/" \o n \o "/download"
Parsed(n, v, f) ==
    [ok |-> TRUE, crate_name |-> n, version |-> v, filename |-> f]

\* C8 as stated: every /api/v1/crates/n/v/download parses to
\* (n, v, "n-v.crate") and every /api/v1/crates/n/download to name n with
\* selector "latest".
C8_Original ==
    parseOut # <<>> =>
        \A n \in Segments, v \in Segments :
            /\ parseIn = DownloadPath(n, v) =>
                   parseOut[1] = Parsed(n, v, n \o "-" \o v \o ".crate")
            /\ parseIn = LatestPath(n) =>
                   /\ parseOut[1].ok
                   /\ parseOut[1].crate_name = n
                   /\ parseOut[1].version = "latest"

\* C8 amended: the same, for every version segment other than the literal
\* "download" (which the parser reads as the marker of the latest form).
C8_DownloadPathParsed ==
    parseOut # <<>> =>
        \A n \in Segments, v \in Segments \ {"download"} :
            /\ parseIn = DownloadPath(n, v) =>
                   parseOut[1] = Parsed(n, v, n \o "-" \o v \o ".crate")
            /\ parseIn = LatestPath(n) =>
                   /\ parseOut[1].ok
                   /\ parseOut[1].crate_name = n
                   /\ parseOut[1].version = "latest"

\* Both forms are parsed.
C8_Witness ==
    /\ parseOut # <<>>
    /\ parseIn = DownloadPath("a", "1.0")
    /\ parseOut[1] = Parsed("a", "1.0", "a-1.0.crate")

(***************************************************************************)
(* Claims about the CacheManager interface (SpecCache)                     *)
(***************************************************************************)
\* C1: round trip.  While saved[k] = <<b>>, that is after a save_to_cache(k,
\* b) that ran to completion on a file that stayed linked, and before any
\* later write to or removal of k's file, get_cached_content(k) passes its
\* is_cached gate and its read returns exactly b.
C1_RoundTrip ==
    [][\A p \in Procs :
          (proc[p].call = "get_cached_content" /\ saved[proc[p].key] # <<>>
              /\ proc'[p].pc # proc[p].pc) =>
             /\ proc[p].pc = "get_cached_content" => proc'[p].pc = "gcc_read"
             /\ proc[p].pc = "gcc_read" =>
                    proc'[p].result = Ok(saved[proc[p].key][1])]_vars

\* A read that followed a completed write has returned the written bytes.
C1_Witness ==
    \E p \in Procs :
        /\ proc[p].pc = "idle" /\ proc[p].call = "get_cached_content"
        /\ saved[proc[p].key] # <<>>
        /\ proc[p].result = Ok(saved[proc[p].key][1])
        /\ proc[p].result.val \in Contents

(***************************************************************************)
(* Claims about the VersionManager interface (SpecIndex)                   *)
(***************************************************************************)
\* a call of the named function has returned and nothing was called since
Returned(p, fn) == proc[p].call = fn /\ proc[p].pc = "idle"

\* C3: a get_version_info call that finds a record r and reads the clock at
\* current_time > r.expires_at returns Ok(None) and leaves no record under
\* the key; one that reads current_time <= r.expires_at returns r and
\* leaves it in place.
C3_VersionRecordTtl ==
    \A p \in Callers :
        (Returned(p, "get_version_info") /\ proc[p].rec.some) =>
            LET r == proc[p].rec.val
                key == VersionKey(proc[p].crate, proc[p].ver)
            IN IF proc[p].time > r.expires_at
               THEN /\ proc[p].result = Ok(None)
                    /\ key \notin DOMAIN versions_tree
               ELSE /\ proc[p].result = Ok(Some(r))
                    /\ key \in DOMAIN versions_tree
                    /\ versions_tree[key] = r

\* An expired record was found, reported absent and removed.
C3_Witness ==
    \E p \in Callers :
        /\ Returned(p, "get_version_info") /\ proc[p].rec.some
        /\ proc[p].time > proc[p].rec.val.expires_at
        /\ proc[p].rec.val.expires_at = proc[p].rec.val.created_at + DefaultTtl
        /\ proc[p].result = Ok(None)

\* the durable pointer of the crate exists, decodes and has expired
PointerExpired(crate_name) ==
    /\ crate_name \in DOMAIN latest_tree
    /\ from_slice(latest_tree[crate_name], LatestVersionMappingFields).ok
    /\ now > latest_tree[crate_name].expires_at

\* C4 as stated: while the crate's LatestPointer is expired, a
\* get_latest_version call that returns does not return a version.
C4_ExpiredPointerAbsent ==
    [][\A p \in Callers :
          (/\ proc[p].call = "get_latest_version"
           /\ proc[p].pc # "idle" /\ proc'[p].pc = "idle"
           /\ PointerExpired(proc[p].crate))
          => proc'[p].result = Ok(None)]_vars

\* C5: when cleanup_expired_data has returned Ok, no record that decodes in
\* either table has expires_at below the current_time the sweep read, and
\* no map key is left for a crate whose pointer the sweep removed.
C5_SweepComplete ==
    \A p \in Callers :
        (Returned(p, "cleanup_expired_data") /\ proc[p].result.ok) =>
            /\ \A k \in DOMAIN versions_tree :
                   from_slice(versions_tree[k], VersionInfoFields).ok =>
                       ~(versions_tree[k].expires_at < proc[p].time)
            /\ \A k \in DOMAIN latest_tree :
                   from_slice(latest_tree[k], LatestVersionMappingFields).ok
                       => ~(latest_tree[k].expires_at < proc[p].time)
            /\ \A i \in 1..Len(proc[p].acc) :
                   proc[p].acc[i] \notin DOMAIN memory_cache

\* A sweep has removed an expired pointer whose crate was in the map.
C5_Witness ==
    \E p \in Callers :
        /\ Returned(p, "cleanup_expired_data") /\ proc[p].result.ok
        /\ proc[p].acc # <<>>
        /\ proc[p].rec.some
        /\ proc[p].rec.val.expires_at < proc[p].time

(***************************************************************************)
(* Claims about the request pipeline (Spec, SpecRequest)                   *)
(***************************************************************************)
\* C2 as stated: in every reachable state, sweeps and other requests
\* included, a request to which is_cached(k) has returned true gets Ok from
\* the get_cached_content(k) that follows it.
C2_CacheReadGate ==
    \A t \in Procs : proc[t].pc = "hcr_hit_read" => proc[t].result.ok

\* the three path forms the specification accepts
WellFormedPath(path) ==
    LET parts == split(path, "/")
    IN /\ Len(parts) \in {5, 6, 7}
       /\ parts[1] = "" /\ parts[2] = "api"
       /\ parts[3] = "v1" /\ parts[4] = "crates"
       /\ Len(parts) > 5 => parts[Len(parts)] = "download"

\* C9 as stated, for the upstream calls and the status: a GET whose path
\* has none of the three forms makes no registry call and, once answered,
\* has been answered 400.
C9_MalformedRejected ==
    \A t \in Procs :
        (proc[t].req.method = "GET" /\ ~WellFormedPath(proc[t].req.path)) =>
            /\ proc[t].nlist = 0
            /\ proc[t].ndl = 0
            /\ proc[t].pc = "idle" =>
                   /\ proc[t].out.kind = "response"
                   /\ proc[t].out.status = 400

\* the metadata form: /api/v1/crates/<name>, five parts
MetadataPath(path) ==
    LET parts == split(path, "/")
    IN /\ Len(parts) = 5
       /\ parts[1] = "" /\ parts[2] = "api"
       /\ parts[3] = "v1" /\ parts[4] = "crates"

\* C10 as stated: a GET on the metadata path is never answered 400.
C10_MetadataAccepted ==
    \A t \in Procs :
        (/\ proc[t].req.method = "GET"
         /\ MetadataPath(proc[t].req.path)
         /\ proc[t].out.kind = "response")
        => proc[t].out.status # 400

\* the request the task holds is refused by handle_request itself
Refused(t) ==
    /\ proc[t].req # NoRequest
    /\ \/ proc[t].req.method # "GET"
       \/ ~parse_crates_request(proc[t].req.path).ok

ListingFailed(t) ==
    /\ proc[t].pc = "idle"
    /\ proc[t].req.method = "GET"
    /\ parse_crates_request(proc[t].req.path).ok
    /\ parse_crates_request(proc[t].req.path).version # "latest"
    /\ proc[t].out.kind = "response" /\ proc[t].out.status = 500
    /\ proc[t].nlist = 1 /\ proc[t].ndl = 0

\* C12 as stated, for the version listing: two requests that are the same
\* and were both answered 500 because the listing failed have received the
\* same response, whatever body the registry sent with its error.
C12_NoUpstreamBodyLeak ==
    \A t, u \in Procs :
        (ListingFailed(t) /\ ListingFailed(u) /\ proc[t].req = proc[u].req)
            => proc[t].out = proc[u].out

\* no element of the listing is live and matches the selector
NoMatch(versions, selector) ==
    \A i \in 1..Len(versions) :
        versions[i].yanked \/ ~FourRules(versions[i].num, selector)

\* C13: when the registry answers the listing of a request with an explicit
\* selector and no listed version matches, that step ends the request with
\* status 404; the request has made no download and has called neither
\* CacheManager nor VersionManager, and the step leaves the cache files and
\* directories, the durable tables and the map as they were.
C13_UnmatchedSelector ==
    [][\A t \in Procs, listing \in Listings :
          (/\ HcrList(t, listing)
           /\ listing.ok
           /\ NoMatch(listing.val, proc[t].selector))
          => /\ proc'[t].pc = "idle"
             /\ proc'[t].out.kind = "response"
             /\ proc'[t].out.status = 404
             /\ proc'[t].ndl = 0
             /\ proc'[t].key = NoKey
             /\ UNCHANGED <<fsVars, dbVars>>]_vars

\* A request for "1.0" was answered 404 after a listing that held only a
\* yanked 1.0.0 or only other versions.
C13_Witness ==
    \E t \in Procs :
        /\ proc[t].pc = "idle"
        /\ proc[t].req = Request("GET", "/api/v1/crates/a/1.0/download")
        /\ proc[t].out.kind = "response" /\ proc[t].out.status = 404
        /\ proc[t].out.body.detail = "1.0"
        /\ proc[t].nlist = 1 /\ proc[t].ndl = 0
        /\ proc[t].key = NoKey

\* C14 as stated: every GET request whose handling has ended was answered
\* with an HTTP response of status 200, 400, 404 or 500; a failed read of
\* the artifact cache included.
C14_AlwaysAnswered ==
    \A t \in Procs :
        (proc[t].pc = "idle" /\ proc[t].req.method = "GET") =>
            /\ proc[t].out.kind = "response"
            /\ proc[t].out.status \in {200, 400, 404, 500}

\* the file the task's cache key maps to is stored
Stored(t) == Resolve(cache_path(proc[t].key)) \in DOMAIN fsFiles

\* C15: a request to which is_cached has answered true goes on to read the
\* cache and makes no download; its read, when the file is stored at that
\* moment, returns exactly the stored bytes; and the request that got the
\* bytes is answered 200 with these bytes as body, Content-Type
\* application/octet-stream and Content-Length equal to their number,
\* still without a download.
C15_CacheHit ==
    [][\A t \in Procs :
          /\ (/\ proc[t].pc = "hcr_hit" /\ proc[t].result = Ok(TRUE)
              /\ proc'[t].pc # "hcr_hit")
             => /\ proc'[t].pc = "get_cached_content"
                /\ proc'[t].ret = "hcr_hit_read"
                /\ proc'[t].key = proc[t].key
                /\ proc'[t].ndl = 0
          /\ (/\ proc[t].pc = "gcc_read" /\ proc[t].ret = "hcr_hit_read"
              /\ proc'[t].pc # "gcc_read" /\ Stored(t))
             => proc'[t].result =
                    Ok(fsFiles[Resolve(cache_path(proc[t].key))].content)
          /\ (/\ proc[t].pc = "hcr_hit_read" /\ proc[t].result.ok
              /\ proc'[t].pc # "hcr_hit_read")
             => /\ proc'[t].pc = "idle"
                /\ proc'[t].out =
                       Response(200, BytesBody(proc[t].result.val),
                                Some("application/octet-stream"),
                                Some(Len(proc[t].result.val)))
                /\ proc'[t].ndl = 0]_vars

\* A request was served from the cache: no download, one listing or none,
\* and the body is the artifact an earlier request had stored.
C15_Witness ==
    \E t \in Procs :
        /\ proc[t].pc = "idle" /\ proc[t].key # NoKey
        /\ proc[t].ndl = 0
        /\ Stored(t)
        /\ proc[t].out.kind = "response" /\ proc[t].out.status = 200
        /\ proc[t].out.body.bytes \in Contents
        /\ proc[t].out.body.bytes =
               fsFiles[Resolve(cache_path(proc[t].key))].content
        /\ proc[t].out.content_length = Some(Len(proc[t].out.body.bytes))

(***************************************************************************)
(* Claims about reads and sweeps of the artifact cache (SpecCache)         *)
(***************************************************************************)
\* a regular file is stored under the path of key k
FileAt(k) ==
    /\ ~cache_path(k).dirOnly
    /\ Resolve(cache_path(k)) \in DOMAIN fsFiles

\* nothing, file or directory, is at the path of key k
NothingAt(k) ==
    /\ Resolve(cache_path(k)) \notin DOMAIN fsFiles
    /\ Resolve(cache_path(k)) \notin fsDirs

\* C16: whatever the clock and the file's creation time, is_cached(k)
\* returns true when k's file is stored and false when nothing is at its
\* path, and get_cached_content(k) passes its gate and returns the stored
\* bytes; a stored file disappears only in a step of the sweep, never in a
\* step of is_cached, get_cached_content or save_to_cache, and once the
\* sweep has removed it is_cached is false for every key of that file.
C16_ReadIgnoresAge ==
    [][/\ \A p \in Callers :
             LET k == proc[p].key
                 moved == proc'[p].pc # proc[p].pc
             IN /\ (proc[p].pc = "is_cached" /\ moved /\ FileAt(k))
                       => proc'[p].result = Ok(TRUE)
                /\ (proc[p].pc = "is_cached" /\ moved /\ NothingAt(k))
                       => proc'[p].result = Ok(FALSE)
                /\ (proc[p].pc = "get_cached_content" /\ moved /\ FileAt(k))
                       => proc'[p].pc = "gcc_read"
                /\ (proc[p].pc = "gcc_read" /\ moved /\ FileAt(k))
                       => proc'[p].result =
                              Ok(fsFiles[Resolve(cache_path(k))].content)
       /\ \A r \in DOMAIN fsFiles \ DOMAIN fsFiles' :
             /\ \A p \in Callers : proc'[p].pc = proc[p].pc
             /\ is_expired(r, fsFiles)
             /\ \A k \in KeysAt(r, CacheKeys) :
                    ~is_cached(k, fsDirs', fsFiles')]_vars

\* is_cached has answered true for a file older than the TTL.
C16_Witness ==
    \E p \in Callers :
        /\ Returned(p, "is_cached") /\ proc[p].result = Ok(TRUE)
        /\ FileAt(proc[p].key)
        /\ now - fsFiles[Resolve(cache_path(proc[p].key))].created
               > DefaultTtl

(***************************************************************************)
(* Claims about the registry calls (SpecLatest, SpecRequest)               *)
(***************************************************************************)
\* C17: a request for 'latest' whose lookup in the index found no pointer
\* goes on to ask the registry, and that step is its own
\* get_available_versions call: it is counted for the request whatever
\* the other task has done or stored in the meantime, and it never has to
\* wait for another request's call.
C17_NoSingleFlight ==
    [][\A t \in Procs :
          LET moved == proc'[t].pc # proc[t].pc
          IN /\ (proc[t].pc = "ps_gl_first" /\ proc[t].result = Ok(None)
                    /\ moved)
                   => proc'[t].pc = "gac_list" /\ proc'[t].nlist = 0
             /\ (proc[t].pc = "gac_list" /\ moved) => proc'[t].nlist = 1
             /\ proc[t].pc = "gac_list"
                   => ENABLED (\E listing \in Listings : GacList(t, listing))
      ]_vars

\* Both tasks have asked for the latest version of the same crate as their
\* first request and both were served: each has made its own registry
\* listing, two calls for one crate.
C17_Witness ==
    /\ started = 2
    /\ \A t \in Procs :
           /\ proc[t].pc = "idle"
           /\ proc[t].req = Request("GET", "/api/v1/crates/a/download")
           /\ proc[t].nlist = 1
           /\ proc[t].out.kind = "response" /\ proc[t].out.status = 200

\* v is the number of a version of the list that is not yanked, and no
\* version of the list that is not yanked has a number after v in
\* lexicographic order
IsLexMax(v, versions) ==
    /\ \E i \in 1..Len(versions) :
           versions[i].num = v /\ ~versions[i].yanked
    /\ \A j \in 1..Len(versions) :
           ~versions[j].yanked => ~str_lt(v, versions[j].num)

\* some version of the list is not yanked
HasLive(versions) == \E i \in 1..Len(versions) : ~versions[i].yanked

\* C18: when the registry answers the listing of a request for 'latest',
\* the request calls set_latest_version with the lexicographic maximum of
\* the versions not yanked, and does not call it when every version is
\* yanked; and every pointer written to the durable table is the maximum
\* some request has so chosen from its listing, hence never the number of
\* a version the listing gave only as yanked.
C18_LatestIsLexMax ==
    [][/\ \A t \in Procs, listing \in Listings :
             (GacList(t, listing) /\ listing.ok) =>
                 IF HasLive(listing.val)
                 THEN /\ proc'[t].pc = "set_latest_version"
                      /\ proc'[t].crate = proc[t].crate
                      /\ IsLexMax(proc'[t].ver, listing.val)
                 ELSE proc'[t].pc # "set_latest_version"
       /\ \A c \in DOMAIN latest_tree' :
             (c \notin DOMAIN latest_tree \/ latest_tree'[c] # latest_tree[c])
                 => \E t \in Procs :
                        /\ proc[t].pc = "set_latest_version"
                        /\ proc[t].crate = c
                        /\ latest_tree'[c].latest_version = proc[t].ver
                        /\ IsLexMax(proc[t].ver, proc[t].versions)]_vars

\* From the listing 10.0.0, 2.0.0 the pointer 2.0.0 has been stored.
C18_Witness ==
    \E t \in Procs :
        /\ proc[t].pc = "vm_sl_mem"
        /\ proc[t].versions = <<CrateVersion("10.0.0", FALSE),
                                CrateVersion("2.0.0", FALSE)>>
        /\ proc[t].ver = "2.0.0"
        /\ proc[t].crate \in DOMAIN latest_tree
        /\ from_slice(latest_tree[proc[t].crate],
                      LatestVersionMappingFields).ok
        /\ latest_tree[proc[t].crate].latest_version = "2.0.0"

\* the download did not yield an artifact: curl failed, the status is not
\* 200, or the body does not start with the gzip magic number
DownloadFailed(reply) ==
    \/ ~reply.ok
    \/ reply.val.status # 200
    \/ ~bytes_start_with(reply.val.data, GzipMagic)

\* C19: no request ever counts more than one get_available_versions call
\* or more than one download_crate_version call, and the step in which
\* either call fails ends the request with status 500.
C19_NoRetry ==
    [][\A t \in Procs :
          /\ proc'[t].nlist <= 1
          /\ proc'[t].ndl <= 1
          /\ \A listing \in Listings :
                 (~listing.ok /\ (GacList(t, listing) \/ HcrList(t, listing)))
                     => /\ proc'[t].pc = "idle"
                        /\ proc'[t].out.kind = "response"
                        /\ proc'[t].out.status = 500
          /\ \A reply \in Downloads :
                 (DownloadFailed(reply) /\ DlTransfer(t, reply))
                     => /\ proc'[t].pc = "idle"
                        /\ proc'[t].out.kind = "response"
                        /\ proc'[t].out.status = 500]_vars

\* A request has ended 500 after its one listing succeeded and its one
\* download failed.
C19_Witness ==
    \E t \in Procs :
        /\ proc[t].pc = "idle" /\ proc[t].nlist = 1 /\ proc[t].ndl = 1
        /\ proc[t].out.kind = "response" /\ proc[t].out.status = 500
        /\ proc[t].out.body.text = "download"
        /\ proc[t].out.body.detail = "download_failed"

(***************************************************************************)
(* Claims about is_expired (SpecCache)                                     *)
(***************************************************************************)
\* C20 as stated: for the path of every cache key, is_expired is true
\* exactly when no file is there to read the metadata of, or the file's
\* age, the clock minus its creation time, exceeds the TTL; so a file
\* created less than the TTL ago is reported not expired.
C20_ExpiredIsAge ==
    \A k \in CacheKeys :
        LET r == Resolve(cache_path(k))
        IN is_expired(r, fsFiles) <=>
               \/ r \notin DOMAIN fsFiles
               \/ now - fsFiles[r].created > DefaultTtl

(***************************************************************************)
(* Claims about the sweep of the artifact cache (SpecCache)                *)
(***************************************************************************)
\* the age of the stored file r: the clock minus its creation time
Age(r) == now - fsFiles[r].created

\* C21 as stated: a sweep leaves every file younger than the TTL in place
\* with its content, removes every file older than the TTL, leaves no
\* directory below the cache root without entries, and keeps the root.
C21_SweepPostcondition ==
    [][ClearExpiredCache =>
          /\ \A r \in DOMAIN fsFiles :
                 Age(r) < DefaultTtl =>
                     /\ r \in DOMAIN fsFiles'
                     /\ fsFiles'[r] = fsFiles[r]
          /\ \A r \in DOMAIN fsFiles :
                 Age(r) > DefaultTtl => r \notin DOMAIN fsFiles'
          /\ \A d \in fsDirs' :
                 IsUnder(d, StorageRoot) =>
                     DirEntries(d, fsDirs', fsFiles') # {}
          /\ StorageRoot \in fsDirs']_vars

(***************************************************************************)
(* Claims about the resolution of 'latest' (SpecRequest)                   *)
(***************************************************************************)
\* the durable pointer of the crate exists, decodes and names version v
PointerIs(crate_name, v) ==
    /\ crate_name \in DOMAIN latest_tree
    /\ from_slice(latest_tree[crate_name], LatestVersionMappingFields).ok
    /\ latest_tree[crate_name].latest_version = v

\* the durable record of the crate's version exists, decodes and carries
\* the number and the yanked flag of the listed version
RecordOf(crate_name, version) ==
    LET key == VersionKey(crate_name, version.num)
    IN /\ key \in DOMAIN versions_tree
       /\ from_slice(versions_tree[key], VersionInfoFields).ok
       /\ versions_tree[key].version = version.num
       /\ versions_tree[key].yanked = version.yanked

C23_NoLiveVersionIs404 ==
    [][\A t \in Procs :
          (/\ proc[t].pc = "ps_gl_second" /\ proc[t].nlist = 1
           /\ ~HasLive(proc[t].versions)
           /\ proc[t].result = Ok(None)
           /\ proc'[t].pc = "idle")
          => /\ proc'[t].out.kind = "response"
             /\ proc'[t].out.status = 404]_vars

(***************************************************************************)
(* Claims about downloads and the cache key (SpecRequest)                  *)
(***************************************************************************)
\* the registry answered the download with a status other than 200, or
\* with bytes that do not start with the gzip magic number
Rejected(reply) ==
    /\ reply.ok
    /\ \/ reply.val.status # 200
       \/ ~bytes_start_with(reply.val.data, GzipMagic)

\* C24: the step in which download_crate_version gets a status other than
\* 200 or a body without the gzip magic number writes no file and creates
\* no directory, ends the request with status 500, and leaves is_cached
\* false for the key of the request.
C24_FailedDownloadWritesNothing ==
    [][\A t \in Procs, reply \in Downloads :
          (Rejected(reply) /\ DlTransfer(t, reply)) =>
              /\ UNCHANGED fsVars
              /\ proc'[t].pc = "idle"
              /\ proc'[t].out.kind = "response"
              /\ proc'[t].out.status = 500
              /\ proc'[t].key = proc[t].key
              /\ ~is_cached(proc[t].key, fsDirs', fsFiles')]_vars

\* A download whose body was not gzip has ended 500 and nothing is stored
\* under the key.
C24_Witness ==
    \E t \in Procs :
        /\ proc[t].pc = "idle" /\ proc[t].ndl = 1
        /\ proc[t].out.kind = "response" /\ proc[t].out.status = 500
        /\ proc[t].out.body.detail = "invalid_file_format"
        /\ proc[t].key # NoKey
        /\ ~is_cached(proc[t].key, fsDirs, fsFiles)
        /\ fsFiles = <<>>

(***************************************************************************)
(* Claims about scans of the VersionManager (SpecIndex)                    *)
(***************************************************************************)
\* the value stored under key k of the versions table decodes
WellFormed(tree, k) == from_slice(tree[k], VersionInfoFields).ok

\* C25: while get_all_versions(crate) runs, with current_time the clock it
\* read, it removes from the versions table only well-formed records under
\* the prefix "crate:" with expires_at < current_time, and changes nothing
\* else in the tables or the map; when it returns, no such record is left
\* under the prefix, and its result is Ok of exactly the well-formed
\* records the table holds under the prefix, each once, all of them with
\* expires_at >= current_time.
C25_ListVersions ==
    [][\A p \in Callers :
          (proc[p].call = "get_all_versions" /\ proc[p].pc # "idle") =>
              LET prefix == proc[p].crate \o ":"
                  current_time == IF proc[p].pc = "get_all_versions"
                                  THEN now ELSE proc[p].time
                  kept == {k \in DOMAIN versions_tree' :
                              /\ starts_with(k, prefix)
                              /\ WellFormed(versions_tree', k)}
              IN /\ UNCHANGED <<latest_tree, memory_cache>>
                 /\ \A k \in DOMAIN versions_tree' :
                        /\ k \in DOMAIN versions_tree
                        /\ versions_tree'[k] = versions_tree[k]
                 /\ \A k \in DOMAIN versions_tree \ DOMAIN versions_tree' :
                        /\ starts_with(k, prefix)
                        /\ WellFormed(versions_tree, k)
                        /\ versions_tree[k].expires_at < current_time
                 /\ proc'[p].pc = "idle" =>
                        /\ proc'[p].result.ok
                        /\ \A k \in kept :
                               versions_tree'[k].expires_at >= current_time
                        /\ {proc'[p].result.val[i] :
                               i \in 1..Len(proc'[p].result.val)}
                             = {versions_tree'[k] : k \in kept}
                        /\ Len(proc'[p].result.val) = Cardinality(kept)
      ]_vars

\* get_all_versions("a") has returned the record that expires just now,
\* after removing the expired one; the value that does not decode and the
\* expired record of crate b are still stored.
C25_Witness ==
    \E p \in Callers :
        /\ Returned(p, "get_all_versions") /\ proc[p].crate = "a"
        /\ proc[p].result = Ok(<<NewVersionInfo("2.0", TRUE, 1)>>)
        /\ proc[p].time = 2
        /\ "a:1.0" \notin DOMAIN versions_tree
        /\ "a:0.9" \in DOMAIN versions_tree
        /\ "b:1.0" \in DOMAIN versions_tree
        /\ versions_tree["b:1.0"].expires_at < proc[p].time

\* the value stored under key k of the latest_versions table decodes
WellFormedLatest(tree, k) == from_slice(tree[k], LatestVersionMappingFields).ok

\* C26: get_all_versions and cleanup_expired_data leave every value that
\* does not decode where it is and return Ok; cleanup_expired_data has by
\* then removed every record and pointer that decodes and had expired when
\* it read the clock.  get_version_info of a key whose value does not
\* decode returns Err, and so does get_latest_version of such a crate,
\* which is never answered from the map.
C26_MalformedSkipped ==
    [][\A p \in Callers :
          /\ (proc[p].call \in {"get_all_versions", "cleanup_expired_data"}
              /\ proc[p].pc # "idle") =>
                 /\ \A k \in DOMAIN versions_tree :
                        ~WellFormed(versions_tree, k) =>
                            /\ k \in DOMAIN versions_tree'
                            /\ versions_tree'[k] = versions_tree[k]
                 /\ \A k \in DOMAIN latest_tree :
                        ~WellFormedLatest(latest_tree, k) =>
                            /\ k \in DOMAIN latest_tree'
                            /\ latest_tree'[k] = latest_tree[k]
                 /\ proc'[p].pc = "idle" => proc'[p].result.ok
          /\ (proc[p].call = "cleanup_expired_data" /\ proc[p].pc # "idle"
              /\ proc'[p].pc = "idle") =>
                 /\ \A k \in DOMAIN versions_tree' :
                        WellFormed(versions_tree', k) =>
                            versions_tree'[k].expires_at >= proc[p].time
                 /\ \A k \in DOMAIN latest_tree' :
                        WellFormedLatest(latest_tree', k) =>
                            latest_tree'[k].expires_at >= proc[p].time
          /\ (/\ proc[p].pc = "get_version_info"
              /\ VersionKey(proc[p].crate, proc[p].ver)
                     \in DOMAIN versions_tree
              /\ ~WellFormed(versions_tree,
                             VersionKey(proc[p].crate, proc[p].ver))
              /\ proc'[p] # proc[p]) =>
                 /\ proc'[p].pc = "idle" /\ ~proc'[p].result.ok
                 /\ UNCHANGED dbVars
          /\ (/\ proc[p].call = "get_latest_version" /\ proc[p].pc # "idle"
              /\ proc[p].crate \in DOMAIN latest_tree
              /\ ~WellFormedLatest(latest_tree, proc[p].crate)
              /\ proc'[p] # proc[p]) =>
                 /\ \/ proc[p].pc = "get_latest_version"
                       /\ proc'[p].pc = "vm_gl_db"
                    \/ proc[p].pc = "vm_gl_db"
                       /\ proc'[p].pc = "idle" /\ ~proc'[p].result.ok
                 /\ UNCHANGED dbVars
      ]_vars

\* cleanup_expired_data has removed the expired records of both crates and
\* left the two values that do not decode; get_latest_version("b"), whose
\* pointer is one of them, has then returned Err.
C26_Witness ==
    \E p \in Callers :
        /\ Returned(p, "get_latest_version") /\ proc[p].crate = "b"
        /\ ~proc[p].result.ok
        /\ started = 2
        /\ DOMAIN versions_tree = {"a:0.9", "a:2.0"}
        /\ ~WellFormed(versions_tree, "a:0.9")
        /\ ~WellFormedLatest(latest_tree, "b")

(***************************************************************************)
(* Claims about the latest pointer of the VersionManager (SpecIndex)       *)
(***************************************************************************)
\* some caller stores a pointer for crate c in this step
SetsLatest(c) ==
    \E p \in Callers :
        /\ proc[p].pc = "set_latest_version" /\ proc[p].crate = c
        /\ proc'[p].pc = "vm_sl_mem"

\* C27: when set_latest_version(crate, v) returns, the durable pointer of
\* the crate carries v and expires_at = current_time + default_ttl, with
\* current_time the clock the call read.  A durable pointer changes only
\* by another set_latest_version of its crate or once the clock is past
\* its expires_at.  While the clock is not past it, every
\* get_latest_version of the crate returns Ok(Some(v)), from the map or,
\* when the map has no entry, from the durable table.
C27_LatestRoundTrip ==
    [][/\ \A p \in Callers :
            (proc[p].pc = "vm_sl_mem" /\ proc'[p].pc = "idle") =>
                /\ proc'[p].result.ok
                /\ proc[p].crate \in DOMAIN latest_tree'
                /\ latest_tree'[proc[p].crate] =
                       [crate_name |-> proc[p].crate,
                        latest_version |-> proc[p].ver,
                        updated_at |-> proc[p].time,
                        expires_at |-> proc[p].time + DefaultTtl]
       /\ \A c \in DOMAIN latest_tree :
            (/\ WellFormedLatest(latest_tree, c)
             /\ ~SetsLatest(c)
             /\ now <= latest_tree[c].expires_at) =>
                /\ c \in DOMAIN latest_tree'
                /\ latest_tree'[c] = latest_tree[c]
       /\ \A p \in Callers :
            (/\ proc[p].call = "get_latest_version" /\ proc[p].pc # "idle"
             /\ proc'[p].pc = "idle"
             /\ proc[p].crate \in DOMAIN latest_tree
             /\ WellFormedLatest(latest_tree, proc[p].crate)
             /\ \/ now <= latest_tree[proc[p].crate].expires_at
                \/ proc[p].pc = "vm_gl_mem") =>
                proc'[p].result =
                    Ok(Some(latest_tree[proc[p].crate].latest_version))
      ]_vars

\* set_latest_version("a", "2.0") was made at time 1; after a restart, in
\* the second the pointer expires at, get_latest_version("a") has read the
\* durable table and returned 2.0.
C27_Witness ==
    \E p \in Callers :
        /\ Returned(p, "get_latest_version") /\ proc[p].crate = "a"
        /\ proc[p].result = Ok(Some("2.0"))
        /\ proc[p].rec.some
        /\ latest_tree["a"].updated_at = 1
        /\ proc[p].time = latest_tree["a"].expires_at

(***************************************************************************)
(* Claims about overlapping calls of the VersionManager (SpecLatest)       *)
(***************************************************************************)
\* no call of the VersionManager is in progress
Quiescent == \A p \in DOMAIN proc : proc[p].pc \in {"idle", "j_wait"}

\* C28: whenever no VersionManager call is in progress, every crate in the
\* in-process map has an entry in the durable latest_versions table that
\* carries the same version.
C28_DurableIsTruth ==
    Quiescent =>
        \A c \in DOMAIN memory_cache :
            /\ c \in DOMAIN latest_tree
            /\ WellFormedLatest(latest_tree, c)
            /\ latest_tree[c].latest_version = memory_cache[c]

\* task u has created or truncated the file of its key and has not yet
\* written the bytes
Writing(u) == proc[u].pc = "dl_data" /\ proc[u].fd

\* the keys of tasks t and u name the same file
SamePath(t, u) ==
    /\ proc[t].key # NoKey /\ proc[u].key # NoKey
    /\ Resolve(cache_path(proc[t].key)) = Resolve(cache_path(proc[u].key))

\* C29: nothing serializes the writes of an artifact.  A request that
\* missed goes on to the download, which can always be made, then opens
\* the destination whenever the file system allows it and writes to it,
\* whatever the other requests are doing.  Opening leaves the destination
\* empty, also when another request had written it; the bytes written
\* replace what the file held.  While a request is between opening and
\* writing, a
\* request for the same file gets true from is_cached, reads the bytes the
\* file holds at that moment, and is answered 200 with them.
C29_UnserializedWrites ==
    [][\A t \in Procs :
          LET r == Resolve(cache_path(proc[t].key))
              moved == proc'[t].pc # proc[t].pc
              overlap == \E u \in Procs \ {t} : Writing(u) /\ SamePath(t, u)
          IN /\ (proc[t].pc = "hcr_hit" /\ proc[t].result = Ok(FALSE)
                    /\ moved) =>
                    proc'[t].pc = "dl_transfer"
             /\ proc[t].pc = "dl_transfer" =>
                    ENABLED (\E reply \in Downloads : DlTransfer(t, reply))
             /\ (proc[t].pc = "dl_open" /\ moved) =>
                    /\ proc'[t].pc = "dl_data" <=>
                           CanOpenForWrite(cache_path(proc[t].key),
                                           fsDirs, fsFiles)
                    /\ proc'[t].pc = "dl_data" =>
                           /\ r \in DOMAIN fsFiles'
                           /\ fsFiles'[r].content = <<>>
             /\ (Writing(t) /\ r \in DOMAIN fsFiles /\ moved) =>
                    fsFiles'[r].content = proc[t].content
             /\ (/\ proc[t].pc = "is_cached" /\ proc[t].ret = "hcr_hit"
                 /\ overlap /\ r \in DOMAIN fsFiles /\ moved) =>
                    proc'[t].result = Ok(TRUE)
             /\ (/\ proc[t].pc = "gcc_read" /\ proc[t].ret = "hcr_hit_read"
                 /\ overlap /\ r \in DOMAIN fsFiles /\ moved) =>
                    proc'[t].result = Ok(fsFiles[r].content)
             /\ (/\ proc[t].pc = "hcr_hit_read" /\ proc[t].result.ok
                 /\ moved) =>
                    /\ proc'[t].out.kind = "response"
                    /\ proc'[t].out.status = 200
                    /\ proc'[t].out.body.bytes = proc[t].result.val
      ]_vars

\* Two requests missed on the same file.  One has downloaded, written and
\* been answered 200 with its bytes; the other has downloaded as well and
\* has just truncated the file the first wrote: is_cached is true for a
\* file that holds none of the bytes to come.
C29_Witness ==
    \E t \in Procs : \E u \in Procs \ {t} :
        /\ started = 2
        /\ proc[t].pc = "idle" /\ proc[t].ndl = 1
        /\ proc[t].out.kind = "response" /\ proc[t].out.status = 200
        /\ proc[t].out.body.bytes \in Contents
        /\ Writing(u) /\ proc[u].ndl = 1 /\ SamePath(t, u)
        /\ proc[u].content \in Contents
        /\ fsFiles[Resolve(cache_path(proc[u].key))].content = <<>>
        /\ is_cached(proc[u].key, fsDirs, fsFiles)

\* a request was answered 200 with no bytes, from the cache, while the
\* other request was between opening and writing the same file
C29_PartialRead ==
    \E t \in Procs : \E u \in Procs \ {t} :
        /\ proc[t].pc = "idle" /\ proc[t].ndl = 0
        /\ proc[t].out.kind = "response" /\ proc[t].out.status = 200
        /\ proc[t].out.body.bytes = <<>>
        /\ Writing(u) /\ SamePath(t, u)
        /\ proc[u].content \in Contents

(***************************************************************************)
(* Claims about the cache key of a download (SpecRequest)                  *)
(***************************************************************************)
\* the request of task t is a download: its path ends with /download
IsDownload(t) == ends_with(proc[t].req.path, "/download")

\* the key of crate c at version v
CanonicalKey(c, v) == CacheKey(c, v, c \o "-" \o v \o ".crate")

\* C30: when a download request has resolved its version v, by the pointer
\* of 'latest' or by the selection among the registry's versions, the key
\* it goes to the cache with is (crate, v, "crate-v.crate"), and v is not
\* 'latest'.  The request keeps this key to its end, the only file a
\* request creates or changes is the file of its key, and is_cached
\* answers true whenever that file is stored, after which the request
\* reads the cache and makes no download.
C30_CanonicalKey ==
    [][\A t \in Procs :
          LET moved == proc'[t].pc # proc[t].pc
              enters == /\ proc'[t].pc = "is_cached"
                        /\ proc'[t].ret = "hcr_hit"
                        /\ IsDownload(t)
          IN /\ (proc[t].pc \in {"ps_gl_first", "ps_gl_second"} /\ enters)
                    => /\ proc[t].selector = "latest"
                       /\ proc[t].result.val.val # "latest"
                       /\ proc'[t].key = CanonicalKey(proc[t].crate,
                                             proc[t].result.val.val)
             /\ \A listing \in Listings :
                    (HcrList(t, listing) /\ enters) =>
                        LET v == select_version_for_range(
                                     listing.val, proc[t].selector).val.num
                        IN /\ v # "latest"
                           /\ \E i \in 1..Len(listing.val) :
                                  listing.val[i].num = v
                           /\ proc'[t].key = CanonicalKey(proc[t].crate, v)
             /\ (proc[t].key # NoKey /\ proc[t].pc # "idle") =>
                    proc'[t].key = proc[t].key
             /\ (proc[t].pc # "idle" /\ moved) =>
                    \A r \in DOMAIN fsFiles' :
                        (r \notin DOMAIN fsFiles
                            \/ fsFiles'[r] # fsFiles[r]) =>
                            r = Resolve(cache_path(proc[t].key))
             /\ (/\ proc[t].pc = "is_cached" /\ proc[t].ret = "hcr_hit"
                 /\ Stored(t) /\ moved) =>
                    proc'[t].result = Ok(TRUE)
             /\ (proc[t].pc = "hcr_hit" /\ proc[t].result = Ok(TRUE)
                    /\ moved) =>
                    /\ proc'[t].pc = "get_cached_content"
                    /\ proc'[t].ndl = 0
      ]_vars

\* The second request, for selector 1.0, was answered 200 from the cache
\* without a download, under the key of version 1.0.0.  The pointer of
\* this run shows that the first request was one for 'latest': it resolved
\* to 1.0.0 and stored the file.
C30_Witness ==
    \E t \in Procs :
        /\ started = 2
        /\ proc[t].pc = "idle"
        /\ proc[t].req = Request("GET", "/api/v1/crates/a/1.0/download")
        /\ proc[t].key = CanonicalKey("a", "1.0.0")
        /\ proc[t].ndl = 0
        /\ proc[t].out.kind = "response" /\ proc[t].out.status = 200
        /\ proc[t].out.body.bytes \in Contents
        /\ "a" \in DOMAIN latest_tree
        /\ WellFormedLatest(latest_tree, "a")
        /\ latest_tree["a"].latest_version = "1.0.0"
        /\ latest_tree["a"].updated_at = now

(***************************************************************************)
(* Claims about the janitor (SpecJanitorLive)                              *)
(***************************************************************************)
\* the janitor has just called cleanup_expired_data
SweepInvoked == proc[Janitor].pc = "cleanup_expired_data"

\* C31: for every tick of the timer within the horizon of the clock, the
\* janitor eventually calls cleanup_expired_data for that tick; and
\* whenever a sweep has returned an error and a further tick lies within
\* the horizon, cleanup_expired_data is called again later.
C31_JanitorLive ==
    /\ \A d \in 0..MaxTime :
           <>(SweepInvoked
                 /\ proc[Janitor].deadline = d + JanitorInterval)
    /\ (/\ proc[Janitor].pc = "j_log"
        /\ ~proc[Janitor].result.ok
        /\ proc[Janitor].deadline <= MaxTime)
           ~> SweepInvoked

\* the sweep of the third tick is running, and the one before it had
\* returned an error, which the janitor logged
C31_Witness ==
    /\ proc[Janitor].pc = "vm_cl_vnext"
    /\ proc[Janitor].deadline = 3
    /\ ~proc[Janitor].result.ok
    /\ proc[Janitor].result.err = "db"

(***************************************************************************)
(* Claims about the fields of stored records (SpecIndex)                   *)
(***************************************************************************)
\* record r expires default_ttl after its creation
TtlApplied(r) == r.expires_at = r.created_at + DefaultTtl

\* every record of the table that decodes expires default_ttl after its
\* creation
AllTtlApplied(tree) ==
    \A k \in DOMAIN tree : WellFormed(tree, k) => TtlApplied(tree[k])

MetadataOk ==
    /\ listIn.metadata.ok
    /\ listIn.metadata.val.status = 200
    /\ listIn.metadata.val.body.json

\* the version ids of the metadata for which a detail request is made
RequestedIds ==
    LET body == listIn.metadata.val.body
        ids == IF body.versions.some THEN body.versions.val ELSE <<>>
        IsNumber(x) == x.u64.some
        numbers == SelectSeq(ids, IsNumber)
    IN [i \in 1..Len(numbers) |-> numbers[i].u64.val]

\* the detail request of id succeeded
DetailOk(id) == get_version_details(listIn.details[id]).ok

\* C33: get_available_versions returns Err exactly when the metadata
\* request fails; otherwise it returns Ok of the records of the ids whose
\* detail request succeeded, one per such id and in the order of the ids
\* in the metadata.
C33_ListSkipsFailures ==
    listOut # <<>> =>
        IF ~MetadataOk THEN ~listOut[1].ok
        ELSE LET good == SelectSeq(RequestedIds, DetailOk)
             IN /\ listOut[1].ok
                /\ Len(listOut[1].val) = Len(good)
                /\ \A i \in 1..Len(good) :
                       listOut[1].val[i] =
                           get_version_details(listIn.details[good[i]]).val

\* the metadata names ids 1, 2, 1; the detail request of id 1 fails with
\* status 404 and the call returns the record of id 2 alone
C33_Witness ==
    /\ listOut # <<>>
    /\ MetadataOk
    /\ RequestedIds = <<1, 2, 1>>
    /\ listIn.details[1] = HttpReply(404, NotJson)
    /\ listOut[1] = Ok(<<CrateVersion("2.0.0", FALSE)>>)

(***************************************************************************)
(* Claims about the place of the cache files (SpecContain)                 *)
(***************************************************************************)
\* the directories that exist when the server has started
StartDirs == {<<>>, Cwd, StorageRoot}

\* C34: the path of every cache key a request has computed lies inside the
\* storage directory, and so does every file and every directory that
\* exists beside those the server started with.
C34_Contained ==
    /\ \A t \in Procs :
           proc[t].key # NoKey =>
               IsUnder(Resolve(cache_path(proc[t].key)), StorageRoot)
    /\ \A d \in fsDirs \ StartDirs : IsUnder(d, StorageRoot)
    /\ \A r \in DOMAIN fsFiles : IsUnder(r, StorageRoot)

(***************************************************************************)
(* Claims about requests with an explicit selector (SpecRequest)           *)
(***************************************************************************)
\* task t serves a request whose selector is not 'latest'
Explicit(t) ==
    /\ proc[t].call = "handle_request" /\ proc[t].pc # "idle"
    /\ proc[t].selector # "latest"

\* C35: a request with an explicit selector goes from the parser straight
\* to the listing of the registry, reaches the cache only from there, with
\* one listing made, and none of its steps changes the durable tables or
\* the map; a listing that fails ends the request with 500, whether or not
\* the file of the version is stored.
C35_ExplicitAlwaysLists ==
    [][\A t \in Procs :
          LET moved == proc'[t] # proc[t]
          IN /\ (/\ proc[t].pc = "idle" /\ proc'[t].pc # "idle"
                 /\ proc'[t].selector # "latest") =>
                    proc'[t].pc = "hcr_list" /\ proc'[t].nlist = 0
             /\ (Explicit(t) /\ moved) =>
                    /\ UNCHANGED dbVars
                    /\ proc'[t].pc = "is_cached" =>
                           /\ proc[t].pc = "hcr_list"
                           /\ proc'[t].nlist = 1
                    /\ proc[t].pc = "hcr_list" => proc'[t].nlist = 1
                    /\ proc[t].pc # "hcr_list" =>
                           proc'[t].nlist = proc[t].nlist
             /\ \A listing \in Listings :
                    (HcrList(t, listing) /\ ~listing.ok) =>
                        /\ proc'[t].pc = "idle"
                        /\ proc'[t].out.kind = "response"
                        /\ proc'[t].out.status = 500
      ]_vars

\* The request for selector 1.0 was answered 500 after one listing, which
\* failed, while the file of version 1.0.0 is in the cache.
C35_Witness ==
    \E t \in Procs :
        /\ proc[t].pc = "idle"
        /\ proc[t].req = Request("GET", "/api/v1/crates/a/1.0/download")
        /\ proc[t].nlist = 1 /\ proc[t].ndl = 0
        /\ proc[t].out.kind = "response" /\ proc[t].out.status = 500
        /\ Resolve(cache_path(CanonicalKey("a", "1.0.0"))) \in DOMAIN fsFiles
        /\ fsFiles[Resolve(cache_path(CanonicalKey("a", "1.0.0")))].content
               \in Contents

(***************************************************************************)
(* Claims about removals by readers (SpecLatest)                           *)
(***************************************************************************)
\* C36: no step removes from a durable table a pointer or a record that
\* decodes and has not expired at the time of the step.
C36_FreshNeverRemoved ==
    [][/\ \A c \in DOMAIN latest_tree \ DOMAIN latest_tree' :
              WellFormedLatest(latest_tree, c) =>
                  now > latest_tree[c].expires_at
       /\ \A k \in DOMAIN versions_tree \ DOMAIN versions_tree' :
              WellFormed(versions_tree, k) =>
                  now > versions_tree[k].expires_at
      ]_vars

(***************************************************************************)
(* Claims about stale pointers under the janitor (SpecStale)               *)
(***************************************************************************)
\* get_latest_version(c) would return None: the map has no entry for c and
\* the durable table no pointer that decodes
Evicted(c) ==
    /\ c \notin DOMAIN memory_cache
    /\ c \in DOMAIN latest_tree => ~WellFormedLatest(latest_tree, c)

\* C37: no set_latest_version is made, and every pointer expires within
\* the horizon of the clock; then for every crate there is a point after
\* which its pointer is gone from the durable table and from the map for
\* good.
C37_StaleEvicted == \A c \in IndexCrates : <>[]Evicted(c)

(***************************************************************************)
(* Claims about the bytes of cached artifacts (SpecLatest)                 *)
(***************************************************************************)
\* the bytes begin with 0x1f 0x8b
StartsWithGzip(b) == Len(b) >= 2 /\ b[1] = 31 /\ b[2] = 139

\* in the state with tasks procs, some task has opened the file at r and
\* has not written its bytes yet
BeingWrittenIn(procs, r) ==
    \E u \in Procs :
        /\ procs[u].pc = "dl_data" /\ procs[u].fd
        /\ Resolve(cache_path(procs[u].key)) = r

BeingWritten(r) == BeingWrittenIn(proc, r)

\* every file of the cache that no task is writing begins with the gzip
\* magic number, a file being written is empty or begins with it, and the
\* bytes a task is about to write begin with it
ValidatedFiles(files, procs) ==
    /\ \A r \in DOMAIN files :
           \/ StartsWithGzip(files[r].content)
           \/ BeingWrittenIn(procs, r) /\ files[r].content = <<>>
    /\ \A t \in Procs :
           procs[t].pc \in {"dl_open", "dl_data"} =>
               StartsWithGzip(procs[t].content)

\* C38: the request path caches validated artifacts only.  A download goes
\* on to the write only with the bytes of a reply of status 200 that begin
\* with 0x1f 0x8b; the request path puts no other bytes into a file of the
\* cache; so every file that no task is in the middle of writing begins
\* with 0x1f 0x8b, get_cached_content reading such a file returns bytes
\* that begin with them, and the body of every 200 response is the bytes
\* get_cached_content returned.
C38_OnlyValidatedCached ==
    [][/\ ValidatedFiles(fsFiles', proc')
       /\ \A t \in Procs :
             /\ \A reply \in Downloads :
                    (DlTransfer(t, reply) /\ proc'[t].pc = "dl_open") =>
                        /\ reply.ok /\ reply.val.status = 200
                        /\ StartsWithGzip(reply.val.data)
                        /\ proc'[t].content = reply.val.data
             /\ DlData(t) =>
                    \A r \in DOMAIN fsFiles' :
                        \/ r \in DOMAIN fsFiles
                           /\ fsFiles'[r].content = fsFiles[r].content
                        \/ /\ r = Resolve(cache_path(proc[t].key))
                           /\ fsFiles'[r].content = proc[t].content
             /\ (/\ GetCachedContentRead(t) /\ proc'[t].result.ok
                 /\ ~BeingWritten(Resolve(cache_path(proc[t].key)))) =>
                    StartsWithGzip(proc'[t].result.val)
             /\ (/\ proc[t].pc \in {"hcr_hit_read", "hcr_miss_read"}
                 /\ proc'[t].pc = "idle"
                 /\ proc'[t].out.kind = "response"
                 /\ proc'[t].out.status = 200) =>
                    proc'[t].out.body.bytes = proc[t].result.val]_vars

\* A request was answered 200 with bytes it downloaded itself, and the file
\* under its key holds these bytes and is not being written.
C38_Witness ==
    \E t \in Procs :
        /\ proc[t].pc = "idle" /\ proc[t].ndl = 1
        /\ proc[t].out.kind = "response" /\ proc[t].out.status = 200
        /\ StartsWithGzip(proc[t].out.body.bytes)
        /\ proc[t].key # NoKey
        /\ Resolve(cache_path(proc[t].key)) \in DOMAIN fsFiles
        /\ ~BeingWritten(Resolve(cache_path(proc[t].key)))
        /\ fsFiles[Resolve(cache_path(proc[t].key))].content
               = proc[t].out.body.bytes

(***************************************************************************)
(* Claims about the rules of selectVersion (SpecSelect)                    *)
(***************************************************************************)
\* C39: for every list and every selector, selectVersion returns the first
\* version of the list that is not yanked and whose string starts with the
\* selector, or nothing when there is none; and for each version of the
\* list the exact-match rule, the major rule and the major.minor rule
\* accept nothing that the prefix rule does not accept.
C39_PrefixOnly ==
    selOut # <<>> =>
        LET r == selIn.range
            Prefixed(v) == ~v.yanked /\ starts_with(v.num, r)
            i == FirstIndex(selIn.versions, Prefixed)
        IN /\ selOut[1] = IF i = 0 THEN None ELSE Some(selIn.versions[i])
           /\ \A k \in 1..Len(selIn.versions) :
                  LET num == selIn.versions[k].num
                  IN /\ num = r => starts_with(num, r)
                     /\ FourRules(num, r) <=> starts_with(num, r)

\* The selector equals a later version of the list, and the earlier version
\* that only starts with it is the one returned.
C39_Witness ==
    /\ selOut # <<>>
    /\ selIn.range = "1.0.0"
    /\ Len(selIn.versions) >= 2
    /\ selIn.versions[1] = CrateVersion("1.0.0-rc1", FALSE)
    /\ selIn.versions[2] = CrateVersion("1.0.0", FALSE)
    /\ selOut[1] = Some(selIn.versions[1])

(***************************************************************************)
(* Claims about get_cache_stats (SpecCache)                                *)
(***************************************************************************)
\* the regular files under the storage directory
FilesUnderRoot == {r \in DOMAIN fsFiles : IsUnder(r, StorageRoot)}

\* the sum of the lengths of the files at the paths of rs
RECURSIVE SumOfSizes(_)
SumOfSizes(rs) ==
    IF rs = {} THEN 0
    ELSE LET r == CHOOSE x \in rs : TRUE
         IN Len(fsFiles[r].content) + SumOfSizes(rs \ {r})

\* C40: get_cache_stats, called while no call is writing to the cache,
\* returns Ok of counters with total_files = valid_files + expired_files,
\* total_files the number of regular files under the storage directory,
\* expired_files the number of them that is_expired holds of, and
\* total_size the sum of their lengths; it changes no file and no directory.
C40_StatsCount ==
    [][\A p \in Callers :
          GetCacheStats(p) =>
              /\ proc'[p].result.ok
              /\ LET s == proc'[p].result.val
                 IN /\ s.total_files = s.valid_files + s.expired_files
                    /\ s.total_files = Cardinality(FilesUnderRoot)
                    /\ s.expired_files =
                           Cardinality({r \in FilesUnderRoot :
                                           is_expired(r, fsFiles)})
                    /\ s.total_size = SumOfSizes(FilesUnderRoot)
              /\ UNCHANGED fsVars]_vars

\* get_cache_stats has counted two files at different depths of the tree,
\* one of them expired and one not.
C40_Witness ==
    \E p \in Callers :
        /\ proc[p].pc = "idle" /\ proc[p].call = "get_cache_stats"
        /\ proc[p].result.ok
        /\ proc[p].result.val.total_files = 2
        /\ proc[p].result.val.valid_files = 1
        /\ proc[p].result.val.expired_files = 1
        /\ proc[p].result.val.total_size = 6
        /\ \E r \in DOMAIN fsFiles : \E q \in DOMAIN fsFiles : Len(r) # Len(q)

====
